---- MODULE Spec2Model ----
(***************************************************************************)
(* Tool registration, schema export and call dispatch of mesa_llm.         *)
(*                                                                         *)
(* Python strings are modelled as sequences of tokens (a token is a TLA+   *)
(* string that is never split), so concatenation is \o, the empty string   *)
(* is << >> and "starts with" / "contains" are decidable.  Python values   *)
(* are records [ty, s, items].  A JSON text is the sequence of its         *)
(* lexemes; json.loads is a recursive-descent parser over them.            *)
(***************************************************************************)
EXTENDS Integers, Sequences, FiniteSets, TLC

VARIABLES
    tools,          \* ToolManager.tools: insertion-ordered dict, a sequence of [name, fn]
    agent,          \* the caller context (LLMAgent) state the tools read and write
    pc,             \* "idle" | "returned": position of LLMAgent.apply_plan
    llm_response,   \* the llm_response argument of the call_tools call in progress
    agent_before,   \* the caller context state when that call started
    tool_results,   \* the list call_tools returned
    raised_out,     \* "none", or the type of the exception call_tools propagated
    call_log,       \* the invocations of tool functions made by that call, in order
    global_registry,\* _GLOBAL_TOOL_REGISTRY: insertion-ordered dict, a sequence of [name, fn]
    tool_schema,    \* the __tool_schema__ attribute of the functions that have one
    tool_callbacks, \* _TOOL_CALLBACKS
    notified,       \* the calls made to the callbacks, in order
    decorated,      \* the function the decorator was last applied to, and what it raised
    exported,       \* the get_all_tools_schema call in progress and its outcome
    n_ops,          \* the number of registration operations made so far
    other_tools,    \* the tools dict of a second ToolManager, as `tools`
    py_type,        \* the py_type argument of a _python_to_json_type call
    json_type,      \* what that call returned or raised
    memory,         \* the Memory object of memory.py: its fields
    model_steps,    \* agent.model.steps
    memory_pc,      \* "idle" | "pre" | "post": where the agent's step is
    llm_calls,      \* the number of calls of memory.llm.generate made so far
    llm_prompt,     \* the prompt of the latest of them
    evicted,        \* what the latest process_step removed with popleft(), if anything
    memory_raised,  \* the type of the exception the latest process_step raised, or "none"
    rewoo,          \* the ReWOOReasoning object: remaining_tool_calls, current_plan, current_obs
    step_prompt,    \* agent.step_prompt
    stored_plan,    \* the tool calls of the plan as it was stored
    plan_calls,     \* the number of ReWOOReasoning.plan calls made so far
    plan_returned,  \* what the latest of them returned or raised
    recorder,       \* the SimulationRecorder object: its fields and the files it wrote
    recorder_calls, \* the number of calls made to the recorder so far
    recorder_returned \* the latest of them: the method, what it raised, the saves it made

dispatch_vars ==
    <<agent, pc, llm_response, agent_before, tool_results, raised_out, call_log>>

registry_vars ==
    <<global_registry, tool_schema, tool_callbacks, notified, decorated, exported, n_ops,
      other_tools>>

compile_vars == <<py_type, json_type>>

memory_vars ==
    <<memory, model_steps, memory_pc, llm_calls, llm_prompt, evicted, memory_raised>>

rewoo_vars == <<rewoo, step_prompt, stored_plan, plan_calls, plan_returned>>

recorder_vars == <<recorder, recorder_calls, recorder_returned>>

vars ==
    <<tools, dispatch_vars, registry_vars, compile_vars, memory_vars, rewoo_vars,
      recorder_vars>>

-----------------------------------------------------------------------------
(* Bounds *)

\* the longest list of tool calls in an LLM response
MaxBatch == 2

\* the number of registration operations in a run
MaxOps == 3

\* the size of the largest type annotation compiled: the classes and generics
\* it is written with, tuple[int | None, str] having five
MaxTypeSize == 5

\* the number of model steps an agent's memory is followed for
MaxModelSteps == 4

\* the number of tool calls in the longest plan ReWOO stores
MaxPlanCalls == 4

\* the number of calls made to a SimulationRecorder in a run
MaxRecorderCalls == 3

\* the interpreter's recursion limit, sys.getrecursionlimit(): the number of
\* frames the call stack holds (1000 in CPython, scaled down)
RecursionLimit == 12

-----------------------------------------------------------------------------
(* Generic helpers *)

Range(s) == {s[i] : i \in DOMAIN s}

\* all sequences over S of length 0..n
SeqsUpTo(S, n) == UNION {[1..k -> S] : k \in 0..n}

\* s is a contiguous part of t
Contains(t, s) ==
    \E i \in 0..(Len(t) - Len(s)) : \A j \in 1..Len(s) : t[i + j] = s[j]

StartsWith(t, s) ==
    /\ Len(s) <= Len(t)
    /\ \A j \in 1..Len(s) : t[j] = s[j]

RemoveAt(s, k) == [i \in 1..(Len(s) - 1) |-> IF i < k THEN s[i] ELSE s[i + 1]]

Digit == <<"0", "1", "2", "3", "4", "5", "6", "7", "8", "9">>

RECURSIVE IntToStr(_)
IntToStr(n) ==
    IF n < 10 THEN Digit[n + 1] ELSE IntToStr(n \div 10) \o Digit[(n % 10) + 1]

-----------------------------------------------------------------------------
(* Python values *)

PyVal(ty, s, items) == [ty |-> ty, s |-> s, items |-> items]

PyNone == PyVal("NoneType", <<"None">>, <<>>)
PyBool(b) == PyVal("bool", IF b THEN <<"True">> ELSE <<"False">>, <<>>)
PyInt(tok) == PyVal("int", <<tok>>, <<>>)
PyStr(s) == PyVal("str", s, <<>>)
PyList(items) == PyVal("list", <<>>, items)
PyDict(items) == PyVal("dict", <<>>, items)

\* the object the application passes to call_tools as `agent`
PyAgent == PyVal("LLMAgent", <<"LLMAgent">>, <<>>)

\* bool(v)
Truthy(v) ==
    CASE v.ty = "NoneType" -> FALSE
      [] v.ty = "bool" -> v.s = <<"True">>
      [] v.ty = "int" -> v.s # <<"0">>
      [] v.ty = "str" -> v.s # <<>>
      [] v.ty \in {"list", "dict"} -> v.items # <<>>
      [] OTHER -> TRUE

RECURSIVE Repr(_), JoinRepr(_), JoinItems(_)
\* repr(v)
Repr(v) ==
    CASE v.ty = "str" -> <<"'">> \o v.s \o <<"'">>
      [] v.ty = "list" -> <<"[">> \o JoinRepr(v.items) \o <<"]">>
      [] v.ty = "dict" -> <<"{">> \o JoinItems(v.items) \o <<"}">>
      [] OTHER -> v.s

JoinRepr(items) ==
    IF items = <<>> THEN <<>>
    ELSE IF Len(items) = 1 THEN Repr(items[1])
    ELSE Repr(items[1]) \o <<", ">> \o JoinRepr(Tail(items))

JoinItems(items) ==
    IF items = <<>> THEN <<>>
    ELSE LET one == <<"'", items[1].k, "'", ": ">> \o Repr(items[1].v)
         IN IF Len(items) = 1 THEN one ELSE one \o <<", ">> \o JoinItems(Tail(items))

\* str(v)
Str(v) == IF v.ty = "str" THEN v.s ELSE Repr(v)

\* an insertion-ordered dict is a sequence of [k, v] with distinct keys
DictKeys(d) == {d[i].k : i \in DOMAIN d}

DictGet(d, k) == d[CHOOSE i \in DOMAIN d : d[i].k = k].v

DictSet(d, k, v) ==
    IF k \in DictKeys(d)
    THEN [i \in DOMAIN d |-> IF d[i].k = k THEN [k |-> k, v |-> v] ELSE d[i]]
    ELSE Append(d, [k |-> k, v |-> v])

DictKeySeq(d) == [i \in DOMAIN d |-> d[i].k]

\* exceptions: [type, msg]; str(e) is msg
Exc(type, msg) == [type |-> type, msg |-> msg]

NoExc == Exc("none", <<>>)

\* the classes `except Exception` catches (KeyboardInterrupt, SystemExit are not)
ExceptionSubclasses ==
    {"ValueError", "TypeError", "AttributeError", "KeyError", "JSONDecodeError",
     "UnboundLocalError"}

-----------------------------------------------------------------------------
(* json.loads over the lexemes of the argument string *)

\* lexemes: a string literal, a number, a literal name, a punctuation mark, or a
\* run of characters that starts no JSON value
JS(x) == [t |-> "str", v |-> x]
JN(x) == [t |-> "num", v |-> x]
JL(x) == [t |-> "lit", v |-> x]
JP(x) == [t |-> "punct", v |-> x]
JBad(x) == [t |-> "bad", v |-> x]

IsPunct(text, i, p) == i <= Len(text) /\ text[i] = JP(p)

ParseOk(val, next) == [ok |-> TRUE, val |-> val, next |-> next, err |-> <<>>]

ParseErr(what, i) ==
    [ok |-> FALSE, val |-> PyNone, next |-> i, err |-> <<what, ": token ", IntToStr(i)>>]

RECURSIVE ParseValue(_, _), ParseArray(_, _, _), ParseObject(_, _, _)
\* the value that starts at lexeme i
ParseValue(text, i) ==
    IF i > Len(text) THEN ParseErr("Expecting value", i)
    ELSE LET x == text[i] IN
         CASE x.t = "str" -> ParseOk(PyStr(IF x.v = "" THEN <<>> ELSE <<x.v>>), i + 1)
           [] x.t = "num" -> ParseOk(PyInt(x.v), i + 1)
           [] x = JL("true") -> ParseOk(PyBool(TRUE), i + 1)
           [] x = JL("false") -> ParseOk(PyBool(FALSE), i + 1)
           [] x = JL("null") -> ParseOk(PyNone, i + 1)
           [] x = JP("[") ->
                IF IsPunct(text, i + 1, "]") THEN ParseOk(PyList(<<>>), i + 2)
                ELSE ParseArray(text, i + 1, <<>>)
           [] x = JP("{") ->
                IF IsPunct(text, i + 1, "}") THEN ParseOk(PyDict(<<>>), i + 2)
                ELSE ParseObject(text, i + 1, <<>>)
           [] OTHER -> ParseErr("Expecting value", i)

\* the elements of an array from lexeme i on, acc holding the ones before
ParseArray(text, i, acc) ==
    LET r == ParseValue(text, i) IN
    IF ~r.ok THEN r
    ELSE LET items == Append(acc, r.val) IN
         IF IsPunct(text, r.next, "]") THEN ParseOk(PyList(items), r.next + 1)
         ELSE IF IsPunct(text, r.next, ",") THEN ParseArray(text, r.next + 1, items)
         ELSE ParseErr("Expecting ',' delimiter", r.next)

\* the members of an object from lexeme i on, acc holding the ones before
ParseObject(text, i, acc) ==
    IF i > Len(text) \/ text[i].t # "str"
    THEN ParseErr("Expecting property name enclosed in double quotes", i)
    ELSE IF ~IsPunct(text, i + 1, ":") THEN ParseErr("Expecting ':' delimiter", i + 1)
    ELSE LET r == ParseValue(text, i + 2) IN
         IF ~r.ok THEN r
         ELSE LET items == DictSet(acc, text[i].v, r.val) IN
              IF IsPunct(text, r.next, "}") THEN ParseOk(PyDict(items), r.next + 1)
              ELSE IF IsPunct(text, r.next, ",") THEN ParseObject(text, r.next + 1, items)
              ELSE ParseErr("Expecting ',' delimiter", r.next)

\* json.loads(text): [ok, val] or the JSONDecodeError it raises
JsonLoads(text) ==
    LET r == ParseValue(text, 1) IN
    IF ~r.ok THEN [ok |-> FALSE, val |-> PyNone, exc |-> Exc("JSONDecodeError", r.err)]
    ELSE IF r.next <= Len(text)
    THEN [ok |-> FALSE, val |-> PyNone,
          exc |-> Exc("JSONDecodeError", ParseErr("Extra data", r.next).err)]
    ELSE [ok |-> TRUE, val |-> r.val, exc |-> NoExc]

\* the argument string of an object with the given members
JObj(members) ==
    LET RECURSIVE Go(_)
        Go(ms) == IF ms = <<>> THEN <<>>
                  ELSE <<JS(ms[1][1]), JP(":")>> \o ms[1][2]
                       \o (IF Len(ms) = 1 THEN <<>> ELSE <<JP(",")>>) \o Go(Tail(ms))
    IN <<JP("{")>> \o Go(members) \o <<JP("}")>>

-----------------------------------------------------------------------------
(* Calling a Python function with keyword arguments *)

\* A function is [id, name, params, defaults, ann, doc, body]: its identity, its
\* __name__, the parameter names of its signature in order, the dict of its
\* default values, its annotations (parallel to params), the lines of its
\* docstring ("none" without one) and the key of its body.

\* the caller context state: LLMAgent attributes the tools read and write
AgentState(budget, position, products) ==
    [budget |-> budget, position |-> position, products |-> products]

Returned(v, ag) == [raised |-> FALSE, exc |-> NoExc, ret |-> v, agent |-> ag]

Raises(e, ag) == [raised |-> TRUE, exc |-> e, ret |-> PyNone, agent |-> ag]

NoAttribute(v, attr) ==
    Exc("AttributeError", <<"'", v.ty, "' object has no attribute '", attr, "'">>)

\* the first object `for x in v` yields; v itself stands for "v is not iterable"
Iterable(v) == v.ty \in {"str", "list", "dict"}

IsEmptyIterable(v) == IF v.ty = "str" THEN v.s = <<>> ELSE v.items = <<>>

FirstOf(v) ==
    CASE v.ty = "list" -> v.items[1]
      [] v.ty = "dict" -> PyStr(<<v.items[1].k>>)
      [] OTHER -> PyStr(v.s)

\* valid_products of buy_product
ValidProducts ==
    << [k |-> "Brand A Shoes", v |-> 40], [k |-> "Brand A Track Suit", v |-> 50],
       [k |-> "Brand B Shoes", v |-> 35], [k |-> "Brand B Track Suit", v |-> 47] >>

\* int(tok) for the number lexemes range() is called with
IntOf(tok) == (CHOOSE i \in DOMAIN Digit : Digit[i] = tok) - 1

RECURSIVE Repeat(_, _, _)
\* sep.join([piece] * n)
Repeat(piece, sep, n) ==
    IF n <= 0 THEN <<>>
    ELSE IF n = 1 THEN piece
    ELSE piece \o sep \o Repeat(piece, sep, n - 1)

\* the body of fn run with the bound arguments b (a dict) in caller state ag
Body(fn, b, ag) ==
    CASE fn.body = "move_to_location" ->
            LET a == DictGet(b, "agent")
                target == DictGet(b, "target_coordinates") IN
            IF a # PyAgent THEN Raises(NoAttribute(a, "position"), ag)
            ELSE Returned(PyStr(<<"This agent moved to ">> \o Str(target) \o <<".">>),
                          [ag EXCEPT !.position = target])
      [] fn.body = "speak_to" ->
            LET speaker == DictGet(b, "speaker_agent")
                listeners == DictGet(b, "listener_agents")
                message == DictGet(b, "message") IN
            IF ~Iterable(listeners)
            THEN Raises(Exc("TypeError",
                            <<"Value after * must be an iterable, not ", listeners.ty>>), ag)
            ELSE LET first == IF IsEmptyIterable(listeners) THEN speaker
                              ELSE FirstOf(listeners) IN
                 IF first # PyAgent THEN Raises(NoAttribute(first, "memory"), ag)
                 ELSE Returned(PyStr(Str(speaker) \o <<" -> ">> \o Str(listeners)
                                     \o <<" : ">> \o Str(message)), ag)
      [] fn.body = "test_tool" ->
            Returned(PyStr(<<"Tool result: ">> \o Str(DictGet(b, "param1"))), ag)
      [] fn.body = "simple_tool" ->
            Returned(PyStr(<<"Result: ">> \o Str(DictGet(b, "required_param"))), ag)
      [] fn.body = "silent_tool" -> Returned(PyNone, ag)
      [] fn.body = "extra_tool" -> Returned(DictGet(b, "x"), ag)
      [] fn.body = "greet" ->
            LET name == DictGet(b, "name")
                times == DictGet(b, "times") IN
            IF times.ty \notin {"int", "bool"}
            THEN Raises(Exc("TypeError", <<"'", times.ty,
                            "' object cannot be interpreted as an integer">>), ag)
            ELSE LET n == IF times.ty = "bool" THEN (IF Truthy(times) THEN 1 ELSE 0)
                          ELSE IntOf(times.s[1]) IN
                 Returned(PyStr(Repeat(<<"Hi ">> \o Str(name) \o <<"!">>, <<" ">>, n)), ag)
      [] fn.body = "buy_product" ->
            LET a == DictGet(b, "agent")
                product == DictGet(b, "chosen_product") IN
            IF product.ty \in {"list", "dict"}
            THEN Raises(Exc("TypeError", <<"unhashable type: '", product.ty, "'">>), ag)
            ELSE IF ~(product.ty = "str" /\ Len(product.s) = 1
                      /\ product.s[1] \in DictKeys(ValidProducts))
            THEN Raises(Exc("ValueError", <<"Invalid product choice: ">> \o Str(product)
                            \o <<". Must be one of ">>
                            \o Repr(PyList([i \in DOMAIN ValidProducts |->
                                            PyStr(<<ValidProducts[i].k>>)]))
                            \o <<".">>), ag)
            ELSE LET price == DictGet(ValidProducts, product.s[1]) IN
                 IF a # PyAgent THEN Raises(NoAttribute(a, "budget"), ag)
                 ELSE IF ag.budget < price
                 THEN Raises(Exc("ValueError", <<"Insufficient budget: ", IntToStr(ag.budget),
                                 ". Product costs ", IntToStr(price), ".">>), ag)
                 ELSE LET ag2 == [ag EXCEPT !.budget = @ - price,
                                            !.products = Append(@, product.s[1])] IN
                      Returned(PyStr(<<"The agent has chosen ", product.s[1],
                                       " as their brand of choice. Remaining budget: ",
                                       IntToStr(ag2.budget), ".">>), ag2)
      [] OTHER -> Returned(PyNone, ag)

\* 'a' / 'a' and 'b' / 'a', 'b', and 'c'
RECURSIVE QuotedNames(_)
QuotedNames(names) ==
    IF Len(names) = 1 THEN <<"'", names[1], "'">>
    ELSE IF Len(names) = 2 THEN <<"'", names[1], "'", " and ", "'", names[2], "'">>
    ELSE <<"'", names[1], "'", ", ">> \o
         (IF Len(names) = 3
          THEN <<"'", names[2], "'", ", and ", "'", names[3], "'">>
          ELSE QuotedNames(Tail(names)))

\* the parameters of fn that kw leaves without a value, in signature order
MissingParams(fn, kw) ==
    SelectSeq(fn.params, LAMBDA p : p \notin DictKeys(kw) /\ p \notin DictKeys(fn.defaults))

\* the keys of kw that fn does not declare, in kw order
UnexpectedKeys(fn, kw) == SelectSeq(DictKeySeq(kw), LAMBDA k : k \notin Range(fn.params))

\* kw completed with the defaults of the parameters it leaves out
BindArgs(fn, kw) ==
    kw \o SelectSeq(fn.defaults, LAMBDA d : d.k \notin DictKeys(kw))

WithRan(ran, o) ==
    [ran |-> ran, raised |-> o.raised, exc |-> o.exc, ret |-> o.ret, agent |-> o.agent]

\* fn(**kw): binding the arguments to the signature, then the body;
\* ran says whether the body was entered
CallFn(fn, kw, ag) ==
    IF UnexpectedKeys(fn, kw) # <<>>
    THEN WithRan(FALSE,
                 Raises(Exc("TypeError", <<fn.name, "() got an unexpected keyword argument '",
                                           UnexpectedKeys(fn, kw)[1], "'">>), ag))
    ELSE IF MissingParams(fn, kw) # <<>>
    THEN LET m == MissingParams(fn, kw) IN
         WithRan(FALSE,
                 Raises(Exc("TypeError", <<fn.name, "() missing ", IntToStr(Len(m)),
                                           " required positional argument",
                                           IF Len(m) = 1 THEN "" ELSE "s", ": ">>
                                         \o QuotedNames(m)), ag))
    ELSE WithRan(TRUE, Body(fn, BindArgs(fn, kw), ag))

-----------------------------------------------------------------------------
(* The functions the application registers as tools *)

\* a type annotation: a class ("int"), a parametrised generic ("list[]") or a
\* union ("Union") with its arguments, the text of a string annotation ("<str>",
\* "[", "]" and "," being tokens of their own) or none ("<empty>")
Ty(k, args) == [k |-> k, args |-> args, text |-> <<>>]
TyText(text) == [k |-> "<str>", args |-> <<>>, text |-> text]
TyEmpty == Ty("<empty>", <<>>)

\* a docstring line: its indentation and its words, ":" being a word of its own
Ln(ind, toks) == [ind |-> ind, toks |-> toks]

MkFn(id, name, params, defaults, ann, doc, body) ==
    [id |-> id, name |-> name, params |-> params, defaults |-> defaults,
     ann |-> ann, doc |-> doc, body |-> body]

move_to_location ==
    MkFn("move_to_location", "move_to_location", <<"agent", "target_coordinates">>, <<>>,
         <<TyText(<<"LLMAgent">>), Ty("tuple[]", <<Ty("float", <<>>), Ty("float", <<>>)>>)>>,
         << Ln(0, <<"Move to a given location in a discrete grid">>),
            Ln(0, <<"Args", ":">>),
            Ln(4, <<"agent", ":", "The agent to move">>),
            Ln(4, <<"target_coordinates", ":", "The target coordinates to move to">>),
            Ln(0, <<"Returns", ":">>),
            Ln(4, <<"A string indicating the agent's new position">>) >>,
         "move_to_location")

speak_to ==
    MkFn("speak_to", "speak_to", <<"speaker_agent", "listener_agents", "message">>, <<>>,
         <<Ty("LLMAgent", <<>>), Ty("list[]", <<Ty("LLMAgent", <<>>)>>), Ty("str", <<>>)>>,
         << Ln(0, <<"Send a message to the recipients.">>) >>,
         "speak_to")

test_tool ==
    MkFn("test_tool", "test_tool", <<"agent", "param1">>, <<>>,
         <<TyEmpty, Ty("str", <<>>)>>,
         << Ln(0, <<"Test tool.">>),
            Ln(0, <<"Args", ":">>),
            Ln(4, <<"agent", ":", "The agent.">>),
            Ln(4, <<"param1", ":", "Test parameter.">>),
            Ln(0, <<"Returns", ":">>),
            Ln(4, <<"Test result.">>) >>,
         "test_tool")

simple_tool ==
    MkFn("simple_tool", "simple_tool", <<"required_param">>, <<>>,
         <<Ty("str", <<>>)>>,
         << Ln(0, <<"Simple tool that doesn't need agent parameter.">>),
            Ln(0, <<"Args", ":">>),
            Ln(4, <<"required_param", ":", "Required parameter.">>),
            Ln(0, <<"Returns", ":">>),
            Ln(4, <<"Test result.">>) >>,
         "simple_tool")

silent_tool ==
    MkFn("silent_tool", "silent_tool", <<"agent">>, <<>>,
         <<TyEmpty>>,
         << Ln(0, <<"Silent tool.">>),
            Ln(0, <<"Args", ":">>),
            Ln(4, <<"agent", ":", "The agent.">>),
            Ln(0, <<"Returns", ":">>),
            Ln(4, <<"Nothing.">>) >>,
         "silent_tool")

extra_tool ==
    MkFn("extra_tool", "extra_tool", <<"x">>, <<>>,
         <<Ty("int", <<>>)>>,
         << Ln(0, <<"Extra tool.">>),
            Ln(0, <<"Args", ":">>),
            Ln(4, <<"x", ":", "Input number.">>),
            Ln(0, <<"Returns", ":">>),
            Ln(4, <<"The input number.">>) >>,
         "extra_tool")

greet ==
    MkFn("greet", "greet", <<"agent", "name", "times">>, <<>>,
         <<TyEmpty, Ty("str", <<>>), Ty("int", <<>>)>>,
         << Ln(0, <<"Greet someone.">>),
            Ln(0, <<>>),
            Ln(0, <<"Args", ":">>),
            Ln(4, <<"agent", ":", "The agent making the request (provided automatically)">>),
            Ln(4, <<"name", ":", "Person name.">>),
            Ln(4, <<"times", ":", "Number of repetitions.">>),
            Ln(0, <<>>),
            Ln(0, <<"Returns", ":">>),
            Ln(4, <<"Concatenated greeting.">>) >>,
         "greet")

buy_product ==
    MkFn("buy_product", "buy_product", <<"agent", "chosen_product", "chosen_price">>, <<>>,
         <<TyText(<<"LLMAgent">>), Ty("str", <<>>), Ty("int", <<>>)>>,
         << Ln(0, <<"A tool to set the brand of choice of the buyer agent. The product must be one of",
                    ":">>),
            Ln(0, <<"[\"Brand A Shoes\", \"Brand A Track Suit\", \"Brand B Shoes\", \"Brand B Track Suit\"].">>),
            Ln(0, <<>>),
            Ln(0, <<"Args", ":">>),
            Ln(4, <<"agent", ":", "The buyer agent.">>),
            Ln(4, <<"chosen_product", ":",
                    "The product chosen by the buyer, specifying brand and type.">>),
            Ln(4, <<"chosen_price", ":", "The price of the product chosen by the buyer.">>),
            Ln(0, <<>>),
            Ln(0, <<"Returns", ":">>),
            Ln(4, <<"str", ":",
                    "The brand of choice of the buyer agent, either \"A\" or \"B\".">>) >>,
         "buy_product")

\* greet declared with a default: def greet(agent, name: str, times: int = 1)
greet_default ==
    [greet EXCEPT !.id = "greet_default", !.defaults = <<[k |-> "times", v |-> PyInt("1")]>>]

\* def f(agent, param1: str) whose Args section leaves `agent` out
test_tool_undocumented_agent ==
    [test_tool EXCEPT !.id = "test_tool_undocumented_agent",
                      !.doc = << Ln(0, <<"Test tool.">>),
                                 Ln(0, <<"Args", ":">>),
                                 Ln(4, <<"param1", ":", "Test parameter.">>),
                                 Ln(0, <<"Returns", ":">>),
                                 Ln(4, <<"Test result.">>) >>]

\* def bad_func(a, b): """No args section."""
bad_func ==
    MkFn("bad_func", "bad_func", <<"a", "b">>, <<>>, <<TyEmpty, TyEmpty>>,
         << Ln(0, <<"No args section.">>) >>,
         "bad_func")

\* def no_schema_tool(): return "test"  -- no docstring
no_schema_tool ==
    MkFn("no_schema_tool", "no_schema_tool", <<>>, <<>>, <<>>, <<>>, "no_schema_tool")

\* inbuilt_tools: the public functions of inbuilt_tools_mock, in getmembers (name) order
inbuilt_tools == <<move_to_location, speak_to>>

\* the functions the application registers with ToolManager.register
UserTools == <<test_tool, simple_tool, silent_tool, extra_tool, greet, buy_product>>

Functions ==
    Range(inbuilt_tools) \cup Range(UserTools)
    \cup {greet_default, test_tool_undocumented_agent, bad_func, no_schema_tool}

Fn(id) == CHOOSE f \in Functions : f.id = id

-----------------------------------------------------------------------------
(* Docstrings and type annotations *)

\* str.lower() on the words the parsers compare case-insensitively
Lower(tok) ==
    CASE tok \in {"Args", "ARGS", "args"} -> "args"
      [] tok \in {"Arg", "ARG", "arg"} -> "arg"
      [] tok \in {"Returns", "RETURNS", "returns"} -> "returns"
      [] tok \in {"Return", "RETURN", "return"} -> "return"
      [] tok \in {"Agent", "AGENT", "agent"} -> "agent"
      [] OTHER -> tok

\* the tokens that match \w+
WordTokens ==
    UNION {Range(f.params) : f \in Functions}
    \cup {"Args", "Arg", "args", "Returns", "Return", "returns", "str", "int"}

IsWord(tok) == tok \in WordTokens

\* s.strip(): the joins below put <<" ">> between texts, some of them empty
RECURSIVE Strip(_)
Strip(s) ==
    IF s = <<>> THEN s
    ELSE IF Head(s) = " " THEN Strip(Tail(s))
    ELSE IF s[Len(s)] = " " THEN Strip(SubSeq(s, 1, Len(s) - 1))
    ELSE s

RECURSIVE JoinText(_, _)
\* sep.join(texts)
JoinText(texts, sep) ==
    IF texts = <<>> THEN <<>>
    ELSE IF Len(texts) = 1 THEN texts[1]
    ELSE texts[1] \o sep \o JoinText(Tail(texts), sep)

\* next(i for i, x in enumerate(xs) if x in S): the first such index, 0 for None
FirstIndex(xs, S) ==
    IF \E i \in DOMAIN xs : xs[i] \in S
    THEN CHOOSE i \in DOMAIN xs : xs[i] \in S /\ \A j \in 1..(i - 1) : xs[j] \notin S
    ELSE 0

IsBlank(ln) == ln.toks = <<>>

\* _ARG_HEADER_RE, _RET_HEADER_RE and _PARAM_LINE_RE
IsArgHeader(ln) == Len(ln.toks) = 2 /\ Lower(ln.toks[1]) \in {"arg", "args"} /\ ln.toks[2] = ":"

IsRetHeader(ln) ==
    Len(ln.toks) = 2 /\ Lower(ln.toks[1]) \in {"return", "returns"} /\ ln.toks[2] = ":"

IsParamLine(ln) == Len(ln.toks) >= 3 /\ IsWord(ln.toks[1]) /\ ln.toks[2] = ":"

RECURSIVE SkipBlank(_, _)
\* while i < len(lines) and lines[i].strip() == "": i += 1
SkipBlank(lines, i) ==
    IF i <= Len(lines) /\ IsBlank(lines[i]) THEN SkipBlank(lines, i + 1) ELSE i

RECURSIVE ContinuationEnd(_, _, _)
\* the index after the indented continuation lines that start at i
ContinuationEnd(lines, i, ret_idx) ==
    IF /\ i <= Len(lines)
       /\ (ret_idx = 0 \/ i < ret_idx)
       /\ lines[i].ind > 0
       /\ ~IsParamLine(lines[i])
    THEN ContinuationEnd(lines, i + 1, ret_idx)
    ELSE i

DocstringParsingError(msg) == Exc("DocstringParsingError", msg)

RECURSIVE ParseArgs(_, _, _, _, _)
\* the loop over the lines of the Args section, from line i on
ParseArgs(fn, lines, i, ret_idx, param_desc) ==
    IF ~(i <= Len(lines) /\ (ret_idx = 0 \/ i < ret_idx))
    THEN [ok |-> TRUE, param_desc |-> param_desc, exc |-> NoExc]
    ELSE IF ~IsParamLine(lines[i])
    THEN [ok |-> FALSE, param_desc |-> param_desc,
          exc |-> DocstringParsingError(<<"Malformed parameter line in ", fn.name, ": '">>
                                        \o lines[i].toks \o <<"'">>)]
    ELSE LET name == lines[i].toks[1]
             j == ContinuationEnd(lines, i + 1, ret_idx)
             desc_lines == <<SubSeq(lines[i].toks, 3, Len(lines[i].toks))>>
                           \o [k \in 1..(j - i - 1) |-> lines[i + k].toks]
         IN ParseArgs(fn, lines, SkipBlank(lines, j), ret_idx,
                      DictSet(param_desc, name, Strip(JoinText(desc_lines, <<" ">>))))

\* mutant: the validation finds nothing missing
MissingDescriptionsNone(fn, param_desc) == <<>>

\* missing = [p for p in sig_params if p not in param_desc]
MissingDescriptions(fn, param_desc) ==
    SelectSeq(fn.params, LAMBDA p : p \notin DictKeys(param_desc))

\* _parse_docstring(func): [ok, summary, param_desc, return_desc, exc]
ParseDocstring(fn) ==
    LET lines == fn.doc
        failed(e) == [ok |-> FALSE, summary |-> <<>>, param_desc |-> <<>>,
                      return_desc |-> PyNone, exc |-> e]
    IN
    IF lines = <<>> THEN failed(DocstringParsingError(<<fn.name, " has no docstring.">>))
    ELSE
    LET args_idx == FirstIndex(lines, {ln \in Range(lines) : IsArgHeader(ln)})
        ret_idx == FirstIndex(lines, {ln \in Range(lines) : IsRetHeader(ln)})
        before == IF args_idx # 0 THEN args_idx - 1
                  ELSE IF ret_idx # 0 THEN ret_idx - 1
                  ELSE Len(lines)
        blank == FirstIndex(SubSeq(lines, 1, before), {ln \in Range(lines) : IsBlank(ln)})
        cut == IF blank # 0 THEN blank - 1 ELSE before
        summary == Strip(JoinText([k \in 1..cut |-> lines[k].toks], <<" ">>))
        args == IF args_idx = 0 THEN [ok |-> TRUE, param_desc |-> <<>>, exc |-> NoExc]
                ELSE ParseArgs(fn, lines, SkipBlank(lines, args_idx + 1), ret_idx, <<>>)
        ret_body == IF ret_idx = 0 THEN <<>>
                    ELSE SelectSeq(SubSeq(lines, ret_idx + 1, Len(lines)),
                                   LAMBDA ln : ~IsBlank(ln))
        return_desc == IF ret_body = <<>> THEN PyNone
                       ELSE PyStr(JoinText([k \in DOMAIN ret_body |-> ret_body[k].toks],
                                           <<" ">>))
    IN
    IF ~args.ok THEN failed(args.exc)
    ELSE LET missing == MissingDescriptions(fn, args.param_desc)
         IN IF missing # <<>>
            THEN failed(DocstringParsingError(
                     <<"Docstring for ", fn.name, " is missing descriptions for: ">>
                     \o Repr(PyList([k \in DOMAIN missing |-> PyStr(<<missing[k]>>)]))))
            ELSE [ok |-> TRUE, summary |-> summary, param_desc |-> args.param_desc,
                  return_desc |-> return_desc, exc |-> NoExc]

\* the builtins a string annotation may name
Builtins == {"int", "str", "float", "bool", "list", "tuple", "dict", "set", "bytes"}

\* the classes the module of fn imports at run time: inbuilt_tools_mock imports
\* LLMAgent, examples/negotiation/tools.py imports it under TYPE_CHECKING only
ModuleGlobals(fn) == IF fn.id \in {"move_to_location", "speak_to"} THEN {"LLMAgent"} ELSE {}

\* get_type_hints(func), with the fallback to func.__annotations__ when the
\* evaluation of a string annotation fails; missing annotations are left out
GetTypeHints(fn) ==
    LET strings == {i \in DOMAIN fn.ann : fn.ann[i].k = "<str>"}
        resolves(i) == /\ Len(fn.ann[i].text) = 1
                       /\ fn.ann[i].text[1] \in Builtins \cup ModuleGlobals(fn)
        evaluated == [i \in DOMAIN fn.ann |->
                         IF i \in strings /\ resolves(i)
                         THEN Ty(fn.ann[i].text[1], <<>>) ELSE fn.ann[i]]
        hints == IF \A i \in strings : resolves(i) THEN evaluated ELSE fn.ann
        annotated == SelectSeq([i \in DOMAIN fn.params |-> i], LAMBDA i : hints[i].k # "<empty>")
    IN [i \in DOMAIN annotated |-> [k |-> fn.params[annotated[i]], v |-> hints[annotated[i]]]]

-----------------------------------------------------------------------------
(* _python_to_json_type *)

JType(name) == PyDict(<<[k |-> "type", v |-> PyStr(<<name>>)]>>)

JArray(items) == PyDict(<<[k |-> "type", v |-> PyStr(<<"array">>)], [k |-> "items", v |-> items]>>)

JAnyOf(schemas) == PyDict(<<[k |-> "anyOf", v |-> PyList(schemas)]>>)

TypeOk(schema) == [ok |-> TRUE, val |-> schema, exc |-> NoExc]

TypeRaises(e) == [ok |-> FALSE, val |-> PyNone, exc |-> e]

\* get_origin(py_type): the class of a parametrised generic, "" for None
Origin(t) ==
    CASE t.k = "list[]" -> "list"
      [] t.k = "tuple[]" -> "tuple"
      [] t.k = "set[]" -> "set"
      [] t.k = "dict[]" -> "dict"
      [] t.k = "Union" -> "Union"
      [] OTHER -> ""

\* the final type_mapping.get(py_type, {"type": "object"})
BasicType(name) ==
    CASE name = "int" -> JType("integer")
      [] name = "float" -> JType("number")
      [] name = "str" -> JType("string")
      [] name = "bool" -> JType("boolean")
      [] name = "bytes" -> PyDict(<<[k |-> "type", v |-> PyStr(<<"string">>)],
                                    [k |-> "format", v |-> PyStr(<<"byte">>)]>>)
      [] name \in {"list", "tuple", "set"} -> JArray(JType("string"))
      [] name = "dict" -> JType("object")
      [] OTHER -> JType("object")

\* the text of a string annotation before its first "[", and between its first
\* "[" and its last "]"
TextBase(txt) ==
    LET i == FirstIndex(txt, {"["}) IN
    IF i = 0 THEN txt ELSE SubSeq(txt, 1, i - 1)

TextInner(txt) ==
    LET i == FirstIndex(txt, {"["})
        closing == {j \in DOMAIN txt : txt[j] = "]"}
        last == CHOOSE j \in closing : \A m \in closing : m <= j
    IN SubSeq(txt, i + 1, last - 1)

RECURSIVE PythonToJsonType(_), CompileAll(_)
\* [_python_to_json_type(arg) for arg in args]: the schemas, or the first exception
CompileAll(args) ==
    IF args = <<>> THEN [ok |-> TRUE, vals |-> <<>>, exc |-> NoExc]
    ELSE LET first == PythonToJsonType(Head(args)) IN
         IF ~first.ok THEN [ok |-> FALSE, vals |-> <<>>, exc |-> first.exc]
         ELSE LET rest == CompileAll(Tail(args)) IN
              IF ~rest.ok THEN rest
              ELSE [ok |-> TRUE, vals |-> <<first.val>> \o rest.vals, exc |-> NoExc]

\* _python_to_json_type(py_type): [ok, val, exc]
PythonToJsonType(t) ==
    IF t.k = "NoneType" THEN TypeOk(JType("null"))
    ELSE IF t.k = "<str>" THEN
        LET txt == t.text
            base == TextBase(txt)
            array_like == /\ "[" \in Range(txt) /\ "]" \in Range(txt)
                          /\ Len(base) = 1 /\ base[1] \in {"list", "tuple", "set"}
        IN IF array_like
           THEN LET inner == TextInner(txt) IN
                IF "," \in Range(inner) THEN TypeOk(JArray(JType("string")))
                ELSE LET item == IF Len(inner) = 1
                                    /\ inner[1] \in {"int", "str", "float", "bool", "list",
                                                     "tuple", "dict", "set"}
                                 THEN inner[1] ELSE "str"
                     IN TypeOk(JArray(BasicType(item)))
           ELSE IF Len(base) = 1
                   /\ base[1] \in {"int", "str", "float", "bool", "list", "tuple", "dict"}
           THEN TypeOk(BasicType(base[1]))
           ELSE TypeOk(JType("object"))
    ELSE IF Origin(t) = "Union" THEN
        LET non_none_args == SelectSeq(t.args, LAMBDA a : a.k # "NoneType")
            has_none == \E i \in DOMAIN t.args : t.args[i].k = "NoneType"
        IN IF Len(non_none_args) = 1 /\ has_none
           THEN LET base == PythonToJsonType(non_none_args[1]) IN
                IF ~base.ok THEN base
                ELSE IF "type" \in DictKeys(base.val.items)
                THEN LET ty == DictGet(base.val.items, "type") IN
                     TypeOk(PyDict(DictSet(base.val.items, "type",
                                IF ty.ty = "list"
                                THEN PyList(Append(ty.items, PyStr(<<"null">>)))
                                ELSE PyList(<<ty, PyStr(<<"null">>)>>))))
                ELSE TypeOk(JAnyOf(<<base.val, JType("null")>>))
           ELSE IF Len(non_none_args) > 1
           THEN LET all == CompileAll(non_none_args) IN
                IF ~all.ok THEN TypeRaises(all.exc) ELSE TypeOk(JAnyOf(all.vals))
           ELSE TypeOk(JType("null"))
    ELSE IF Origin(t) \in {"list", "tuple", "set"} THEN
        IF t.args = <<>> THEN TypeOk(JArray(JType("string")))
        ELSE IF Origin(t) = "tuple" /\ Len(t.args) > 1
        THEN LET all == CompileAll(t.args) IN
             IF ~all.ok THEN TypeRaises(all.exc)
             ELSE LET typed == SelectSeq(all.vals, LAMBDA s : "type" \in DictKeys(s.items))
                      types == {DictGet(typed[i].items, "type") : i \in DOMAIN typed}
                  IN IF \E x \in types : x.ty = "list"
                     THEN TypeRaises(Exc("TypeError", <<"unhashable type: 'list'">>))
                     ELSE IF Cardinality(types) = 1
                     THEN TypeOk(JArray(all.vals[1]))
                     ELSE TypeOk(JArray(JAnyOf(all.vals)))
        ELSE LET item == PythonToJsonType(t.args[1]) IN
             IF ~item.ok THEN item ELSE TypeOk(JArray(item.val))
    ELSE IF Origin(t) = "dict" THEN
        IF Len(t.args) >= 2
        THEN LET value_type == PythonToJsonType(t.args[2]) IN
             IF ~value_type.ok THEN value_type
             ELSE TypeOk(PyDict(<<[k |-> "type", v |-> PyStr(<<"object">>)],
                                  [k |-> "additionalProperties", v |-> value_type.val]>>))
        ELSE TypeOk(JType("object"))
    ELSE TypeOk(BasicType(t.k))

-----------------------------------------------------------------------------
(* The tool decorator *)

\* mutant: a parameter with a default value is left out of the exposed ones
RequiredParamsWithoutDefaults(fn) ==
    SelectSeq(fn.params, LAMBDA p : Lower(p) # "agent" /\ p \notin DictKeys(fn.defaults))

\* the parameters the schema exposes: all but `agent` (ignore_agent is True)
RequiredParams(fn) == SelectSeq(fn.params, LAMBDA p : Lower(p) # "agent")

RECURSIVE BuildProperties(_, _, _, _)
\* the loop that fills `properties`, one entry per required parameter
BuildProperties(required_params, type_hints, arg_docs, properties) ==
    IF required_params = <<>> THEN [ok |-> TRUE, properties |-> properties, exc |-> NoExc]
    ELSE LET param_name == Head(required_params)
             raw_type == IF param_name \in DictKeys(type_hints)
                         THEN DictGet(type_hints, param_name) ELSE Ty("Any", <<>>)
             type_schema == PythonToJsonType(raw_type)
             description == IF param_name \in DictKeys(arg_docs)
                            THEN DictGet(arg_docs, param_name) ELSE <<>>
         IN IF ~type_schema.ok
            THEN [ok |-> FALSE, properties |-> properties, exc |-> type_schema.exc]
            ELSE BuildProperties(Tail(required_params), type_hints, arg_docs,
                     DictSet(properties, param_name,
                             PyDict(DictSet(type_schema.val.items, "description",
                                            PyStr(description)))))

\* the schema dict both schema builders return
ToolSchema(name, description, properties, required) ==
    [type |-> "function",
     function |-> [name |-> name, description |-> description,
                   parameters |-> [type |-> "object", properties |-> properties,
                                   required |-> required]]]

NoSchema == ToolSchema("", <<>>, <<>>, <<>>)

\* decorator(func) up to func.__tool_schema__ = schema: [ok, schema, exc]
CompileToolSchema(fn) ==
    LET doc == ParseDocstring(fn) IN
    IF ~doc.ok THEN [ok |-> FALSE, schema |-> NoSchema, exc |-> doc.exc]
    ELSE LET required_params == RequiredParams(fn)
             props == BuildProperties(required_params, GetTypeHints(fn), doc.param_desc, <<>>)
         IN IF ~props.ok THEN [ok |-> FALSE, schema |-> NoSchema, exc |-> props.exc]
            ELSE [ok |-> TRUE,
                  schema |-> ToolSchema(fn.name,
                                        doc.summary \o <<" returns: ">>
                                        \o (IF doc.return_desc = PyNone THEN <<>>
                                            ELSE doc.return_desc.s),
                                        props.properties, required_params),
                  exc |-> NoExc]

-----------------------------------------------------------------------------
(* ToolManager: registration and call dispatch *)

\* mutant: a name that is already registered keeps its function (setdefault)
RegisterKeepFirst(ts, fn) ==
    IF fn.name \in {ts[i].k : i \in DOMAIN ts} THEN ts
    ELSE Append(ts, [k |-> fn.name, v |-> fn.id])

\* ToolManager.register(fn): self.tools[fn.__name__] = fn
Register(ts, fn) == DictSet(ts, fn.name, fn.id)

RECURSIVE RegisterAll(_, _)
RegisterAll(ts, fns) ==
    IF fns = <<>> THEN ts ELSE RegisterAll(Register(ts, Head(fns)), Tail(fns))

\* ToolManager.__init__: an empty dict, then every inbuilt tool registered
ToolManagerInit == RegisterAll(<<>>, inbuilt_tools)

\* ToolManager.has_tool
HasTool(ts, name) == name \in DictKeys(ts)

RECURSIVE ConcatTokens(_)
\* the str a sequence of tokens spells
ConcatTokens(toks) == IF toks = <<>> THEN "" ELSE Head(toks) \o ConcatTokens(Tail(toks))

RECURSIVE ParseArgDocs(_, _, _, _)
\* get_tool_schema: the loop over the lines after "Args:", from line i on;
\* current is the [name, texts] entry being collected (set says whether there is one)
ParseArgDocs(lines, i, current, arg_docs) ==
    LET flush == IF current.set
                 THEN DictSet(arg_docs, current.name, Strip(JoinText(current.texts, <<" ">>)))
                 ELSE arg_docs
    IN
    IF i > Len(lines) \/ IsBlank(lines[i]) \/ Lower(lines[i].toks[1]) = "returns" THEN flush
    ELSE LET toks == lines[i].toks
             colon == FirstIndex(toks, {":"})
         IN IF colon # 0
            THEN ParseArgDocs(lines, i + 1,
                              [set |-> TRUE, name |-> ConcatTokens(SubSeq(toks, 1, colon - 1)),
                               texts |-> <<SubSeq(toks, colon + 1, Len(toks))>>],
                              flush)
            ELSE IF current.set
            THEN ParseArgDocs(lines, i + 1, [current EXCEPT !.texts = Append(@, toks)], arg_docs)
            ELSE ParseArgDocs(lines, i + 1, current, arg_docs)

RECURSIVE TypeRepr(_), JoinTypeRepr(_, _)
\* str() of an annotation that has no __name__
TypeRepr(t) ==
    CASE t.k = "NoneType" -> <<"None">>
      [] t.k = "<str>" -> t.text
      [] t.k = "Union" -> JoinTypeRepr(t.args, " | ")
      [] Origin(t) # "" -> <<Origin(t), "[">> \o JoinTypeRepr(t.args, ", ") \o <<"]">>
      [] OTHER -> <<t.k>>

JoinTypeRepr(args, sep) ==
    IF args = <<>> THEN <<>>
    ELSE IF Len(args) = 1 THEN TypeRepr(args[1])
    ELSE TypeRepr(args[1]) \o <<sep>> \o JoinTypeRepr(Tail(args), sep)

\* get_tool_schema: the "type" it gives a parameter with annotation t
AnnotationTypeName(t) ==
    IF \/ t.k \in {"tuple[]", "list[]"}
       \/ t.k = "<str>" /\ t.text # <<>> /\ t.text[1] \in {"tuple", "list"}
    THEN <<"array">>
    ELSE IF t.k = "<empty>" THEN <<"Any">>
    ELSE IF t.k = "<str>" THEN t.text
    ELSE IF t.k = "Union" THEN TypeRepr(t)
    ELSE IF Origin(t) # "" THEN <<Origin(t)>>
    ELSE <<t.k>>

\* ToolManager.get_tool_schema(fn, schema_name)
GetToolSchema(fn, schema_name) ==
    LET lines == fn.doc
        args_start == FirstIndex(lines, {ln \in Range(lines) :
                                            /\ Len(ln.toks) = 2
                                            /\ Lower(ln.toks[1]) = "args"
                                            /\ ln.toks[2] = ":"})
        desc == IF args_start # 0
                THEN Strip(JoinText([k \in 1..(args_start - 1) |-> lines[k].toks], <<" ">>))
                ELSE Strip(JoinText([k \in DOMAIN lines |-> lines[k].toks], <<"\n">>))
        arg_docs == IF args_start = 0 THEN <<>>
                    ELSE ParseArgDocs(lines, args_start + 1,
                                      [set |-> FALSE, name |-> "", texts |-> <<>>], <<>>)
        props == [i \in DOMAIN fn.params |->
                     [k |-> fn.params[i],
                      v |-> PyDict(<<[k |-> "type", v |-> PyStr(AnnotationTypeName(fn.ann[i]))],
                                     [k |-> "description",
                                      v |-> PyStr(IF fn.params[i] \in DictKeys(arg_docs)
                                                  THEN DictGet(arg_docs, fn.params[i])
                                                  ELSE <<>>)]>>)]]
    IN ToolSchema(schema_name, desc, props, fn.params)

\* the parameters of `def get_all_tools_schema(self)` after self
GetAllToolsSchemaParams == <<>>

\* self.get_all_tools_schema(*args): [raised, schemas]
GetAllToolsSchema(ts, args) ==
    IF Len(args) > Len(GetAllToolsSchemaParams)
    THEN [raised |-> Exc("TypeError",
                         <<"ToolManager.get_all_tools_schema() takes ",
                           IntToStr(1 + Len(GetAllToolsSchemaParams)),
                           " positional argument but ", IntToStr(1 + Len(args)),
                           " were given">>),
          schemas |-> <<>>]
    ELSE [raised |-> NoExc,
          schemas |-> [i \in DOMAIN ts |-> GetToolSchema(Fn(ts[i].v), ts[i].k)]]

\* one entry of the invocation log
LogEntry(i, fn, attempt, kw, r) ==
    [req |-> i, fn |-> fn.id, attempt |-> attempt, kw |-> kw,
     ran |-> r.ran, raised |-> r.raised, ret |-> r.ret]

NotCalled(e, ag) == WithRan(FALSE, Raises(e, ag))

\* mutant: the first call leaves the caller context out
FirstAttemptNoAgent(fn, args, ag) ==
    IF args.ty # "dict"
    THEN NotCalled(Exc("TypeError", <<fn.name, "() argument after ** must be a mapping, not ",
                                      args.ty>>), ag)
    ELSE CallFn(fn, args.items, ag)

\* function_to_call(agent=agent, **function_args)
FirstAttempt(fn, args, ag) ==
    IF args.ty # "dict"
    THEN NotCalled(Exc("TypeError", <<fn.name, "() argument after ** must be a mapping, not ",
                                      args.ty>>), ag)
    ELSE IF "agent" \in DictKeys(args.items)
    THEN NotCalled(Exc("TypeError", <<fn.name,
                       "() got multiple values for keyword argument 'agent'">>), ag)
    ELSE CallFn(fn, <<[k |-> "agent", v |-> PyAgent]>> \o args.items, ag)

\* mutant: the retry is given the caller context besides the filtered arguments
FilteredArgsWithAgent(fn, args) ==
    <<[k |-> "agent", v |-> PyAgent]>>
    \o SelectSeq(args.items, LAMBDA kv : kv.k \in Range(fn.params) /\ kv.k # "agent")

\* the arguments whose key is a parameter of the signature
FilteredArgs(fn, args) == SelectSeq(args.items, LAMBDA kv : kv.k \in Range(fn.params))

\* the except TypeError branch: function_to_call(**filtered_args)
FilteredRetry(fn, args, ag) ==
    IF args.ty # "dict"
    THEN NotCalled(NoAttribute(args, "items"), ag)
    ELSE CallFn(fn, FilteredArgs(fn, args), ag)

\* the call of the tool function with its fallback: the outcome of the last
\* attempt and the log of the attempts
InvokeTool(fn, args, ag, i) ==
    LET kw1 == IF args.ty = "dict" THEN <<[k |-> "agent", v |-> PyAgent]>> \o args.items
               ELSE <<[k |-> "agent", v |-> PyAgent]>>
        kw2 == IF args.ty = "dict" THEN FilteredArgs(fn, args) ELSE <<>>
        Retried(first, second) ==
            [out |-> second,
             log |-> <<LogEntry(i, fn, 1, kw1, first), LogEntry(i, fn, 2, kw2, second)>>]
        Tried(first) ==
            IF first.raised /\ first.exc.type = "TypeError"
            THEN Retried(first, FilteredRetry(fn, args, first.agent))
            ELSE [out |-> first, log |-> <<LogEntry(i, fn, 1, kw1, first)>>]
    IN Tried(FirstAttempt(fn, args, ag))

ToolResult(tool_call_id, name, response) ==
    [tool_call_id |-> tool_call_id, role |-> "tool", name |-> name, response |-> response]

\* the except Exception branch of one tool call
ErrorResult(tc, e) == ToolResult(tc.id, tc.name, <<"Error: ">> \o e.msg)

\* mutant: only a None result is replaced (if function_response is None)
NormalizeResponseNoneOnly(name, ret) ==
    IF ret.ty = "NoneType" THEN PyStr(<<name, " executed successfully">>) ELSE ret

\* if not function_response: function_response = f"{function_name} executed successfully"
NormalizeResponse(name, ret) ==
    IF ~Truthy(ret) THEN PyStr(<<name, " executed successfully">>) ELSE ret

\* mutant: the clause around one tool call is `except ValueError`
CaughtPerCallValueErrorOnly(e) == e.type = "ValueError"

\* whether the except Exception clause around one tool call catches e
CaughtPerCall(e) == e.type \in ExceptionSubclasses

\* the body of the for loop for tool call i: its result, the caller state after
\* it, the invocations it made, and the exception that leaves the loop (if any)
ProcessToolCall(ts, ag, tc, i) ==
    LET Fail(e, ag2, log) ==
            IF CaughtPerCall(e)
            THEN [result |-> <<ErrorResult(tc, e)>>, agent |-> ag2, log |-> log, exc |-> NoExc]
            ELSE [result |-> <<>>, agent |-> ag2, log |-> log, exc |-> e]
    IN
    IF ~HasTool(ts, tc.name)
    THEN Fail(Exc("ValueError", <<"Function '", tc.name, "' not found in ToolManager">>),
              ag, <<>>)
    ELSE LET Invoked(inv) ==
                 IF inv.out.raised THEN Fail(inv.out.exc, inv.out.agent, inv.log)
                 ELSE LET function_response == NormalizeResponse(tc.name, inv.out.ret) IN
                      [result |-> <<ToolResult(tc.id, tc.name, Str(function_response))>>,
                       agent |-> inv.out.agent, log |-> inv.log, exc |-> NoExc]
             Parsed(parsed) ==
                 IF ~parsed.ok
                 THEN \* raise json.JSONDecodeError(msg): the class takes (msg, doc, pos)
                      Fail(Exc("TypeError",
                               <<"JSONDecodeError.__init__() missing 2 required positional arguments: 'doc' and 'pos'">>),
                           ag, <<>>)
                 ELSE Invoked(InvokeTool(Fn(DictGet(ts, tc.name)), parsed.val, ag, i))
         IN Parsed(JsonLoads(tc.arguments))

RECURSIVE ToolCallLoopBreak(_, _, _, _, _, _)
\* mutant: the loop ends at the first tool call that fails
ToolCallLoopBreak(ts, ag, calls, i, results, log) ==
    IF i > Len(calls) THEN [results |-> results, agent |-> ag, log |-> log, exc |-> NoExc]
    ELSE LET Processed(r) ==
                 IF r.exc # NoExc
                 THEN [results |-> results, agent |-> r.agent, log |-> log \o r.log,
                       exc |-> r.exc]
                 ELSE IF StartsWith(r.result[1].response, <<"Error: ">>)
                 THEN [results |-> results \o r.result, agent |-> r.agent,
                       log |-> log \o r.log, exc |-> NoExc]
                 ELSE ToolCallLoopBreak(ts, r.agent, calls, i + 1, results \o r.result,
                                        log \o r.log)
         IN Processed(ProcessToolCall(ts, ag, calls[i], i))

RECURSIVE ToolCallLoop(_, _, _, _, _, _)
\* for i, tool_call in enumerate(tool_calls): from call i on
ToolCallLoop(ts, ag, calls, i, results, log) ==
    IF i > Len(calls) THEN [results |-> results, agent |-> ag, log |-> log, exc |-> NoExc]
    ELSE LET Processed(r) ==
                 IF r.exc # NoExc
                 THEN [results |-> results, agent |-> r.agent, log |-> log \o r.log,
                       exc |-> r.exc]
                 ELSE ToolCallLoop(ts, r.agent, calls, i + 1, results \o r.result,
                                   log \o r.log)
         IN Processed(ProcessToolCall(ts, ag, calls[i], i))

\* mutant: the outer clauses log the exception and raise it again
OuterExceptReraise(e, ag, log) ==
    [results |-> <<>>, agent |-> ag, log |-> log, raised |-> e.type]

\* the two outer except clauses of call_tools: return [] or let e propagate
OuterExcept(e, ag, log) ==
    IF e.type = "AttributeError" \/ e.type \in ExceptionSubclasses
    THEN [results |-> <<>>, agent |-> ag, log |-> log, raised |-> "none"]
    ELSE [results |-> <<>>, agent |-> ag, log |-> log, raised |-> e.type]

\* ToolManager.call_tools(agent, llm_response).  llm_response.shape says what
\* reading llm_response.tool_calls gives: a list, None, no such attribute, or an
\* object that is no list
CallTools(ts, ag, resp) ==
    CASE resp.shape = "missing" ->
            OuterExcept(Exc("AttributeError", <<"no attribute 'tool_calls'">>), ag, <<>>)
      [] resp.shape = "none" ->
            [results |-> <<>>, agent |-> ag, log |-> <<>>, raised |-> "none"]
      [] resp.shape = "notalist" ->
            OuterExcept(Exc("TypeError", <<"object of type 'Mock' has no len()">>), ag, <<>>)
      [] OTHER ->
            IF resp.tool_calls = <<>>
            THEN [results |-> <<>>, agent |-> ag, log |-> <<>>, raised |-> "none"]
            ELSE LET Looped(r) ==
                         IF r.exc # NoExc THEN OuterExcept(r.exc, r.agent, r.log)
                         ELSE [results |-> r.results, agent |-> r.agent, log |-> r.log,
                               raised |-> "none"]
                 IN Looped(ToolCallLoop(ts, ag, resp.tool_calls, 1, <<>>, <<>>))

-----------------------------------------------------------------------------
(* Memory: short-term entries and their consolidation (memory.py) *)

\* MemoryEntry(content, step)
MemoryEntry(content, step) == [content |-> content, step |-> step]

\* Memory.__init__
MemoryInit(short_term_capacity, consolidation_capacity, display) ==
    [capacity |-> short_term_capacity,
     consolidation_capacity |-> consolidation_capacity,
     display |-> display,
     short_term_memory |-> <<>>,
     long_term_memory |-> <<>>,
     step_content |-> <<>>,
     last_observation |-> <<>>]

\* d.get(k): the value, or None; a content value is a dict or a string, and
\* None differs from every one of them
DiffersFromGet(d, k, v) == k \notin DictKeys(d) \/ DictGet(d, k) # v

RECURSIVE DictUpdate(_, _)
\* d.update(other)
DictUpdate(d, other) ==
    IF other = <<>> THEN d
    ELSE DictUpdate(DictSet(d, Head(other).k, Head(other).v), Tail(other))

\* Memory.add_to_memory(type, content)
AddToMemory(m, type, content) ==
    IF type = "observation"
    THEN LET changed_parts ==
                 SelectSeq(content, LAMBDA kv : DiffersFromGet(m.last_observation, kv.k, kv.v))
         IN [m EXCEPT !.step_content = IF changed_parts # <<>>
                                       THEN DictSet(@, type, changed_parts) ELSE @,
                      !.last_observation = content]
    ELSE [m EXCEPT !.step_content = DictSet(@, type, content)]

\* content.get("step", None), as a condition: a dict value is true when not empty
HasStep(content) == "step" \in DictKeys(content) /\ DictGet(content, "step") # <<>>

\* the prompt of _update_long_term_memory: format_short_term() is the entries
\* of short_term_memory in order ("No recent memory." when there is none),
\* followed by long_term_memory
SummaryPrompt(m) ==
    [short_term |-> m.short_term_memory, long_term |-> m.long_term_memory]

\* Memory._update_long_term_memory, the LLM answering `response`
UpdateLongTermMemory(m, response) == [m EXCEPT !.long_term_memory = response]

\* mutant: consolidation starts one entry later
OverCapacityByTwo(m) ==
    Len(m.short_term_memory) > m.capacity + m.consolidation_capacity + 1

\* len(self.short_term_memory) > self.capacity + self.consolidation_capacity
OverCapacity(m) == Len(m.short_term_memory) > m.capacity + m.consolidation_capacity

\* the outcome of a process_step call: the object, the prompts sent to the
\* LLM, the entries removed with popleft(), and the exception raised
StepOutcome(m, prompts, removed, raised) ==
    [memory |-> m, prompts |-> prompts, removed |-> removed, raised |-> raised]

\* process_step, post-step part 1: the entry the pre-step appended is taken
\* back, the step's content is merged over it and it is appended again
MergePreStep(m, steps) ==
    LET pre_step == m.short_term_memory[Len(m.short_term_memory)]
        content == DictUpdate(m.step_content, pre_step.content)
    IN [m EXCEPT !.short_term_memory =
                     Append(SubSeq(@, 1, Len(@) - 1), MemoryEntry(content, PyInt(IntToStr(steps)))),
                 !.step_content = <<>>]

\* process_step, post-step part 2: consolidation, then the display of new_entry
Consolidate(m, new_entry_bound, response) ==
    LET raised == IF m.display /\ ~new_entry_bound THEN "UnboundLocalError" ELSE "none" IN
    IF OverCapacity(m)
    THEN LET popped == [m EXCEPT !.short_term_memory = Tail(@)] IN
         StepOutcome(UpdateLongTermMemory(popped, response), <<SummaryPrompt(popped)>>,
                     <<Head(m.short_term_memory)>>, raised)
    ELSE StepOutcome(m, <<>>, <<>>, raised)

\* Memory.process_step(pre_step), at model step `steps`, the LLM answering
\* `response` if it is asked
ProcessStep(m, pre_step, steps, response) ==
    IF pre_step
    THEN StepOutcome([m EXCEPT !.short_term_memory = Append(@, MemoryEntry(m.step_content, PyNone)),
                               !.step_content = <<>>],
                     <<>>, <<>>, "none")
    ELSE IF m.short_term_memory = <<>>
    THEN StepOutcome(m, <<>>, <<>>, "IndexError")
    ELSE IF ~HasStep(m.short_term_memory[Len(m.short_term_memory)].content)
    THEN Consolidate(MergePreStep(m, steps), TRUE, response)
    ELSE Consolidate(m, FALSE, response)

\* no Memory is in use
MemoryNotInUse ==
    /\ memory = MemoryInit(5, 2, TRUE)
    /\ model_steps = 0
    /\ memory_pc = "idle"
    /\ llm_calls = 0
    /\ llm_prompt = SummaryPrompt(memory)
    /\ evicted = <<>>
    /\ memory_raised = "none"

-----------------------------------------------------------------------------
(* ReWOOReasoning: the stored plan and its continuation (reasoning/rewoo.py) *)

\* current_plan: None, or the LLM message object and its tool_calls attribute
NoPlan == [is_none |-> TRUE, tool_calls |-> <<>>]

LlmPlan(tool_calls) == [is_none |-> FALSE, tool_calls |-> tool_calls]

\* Observation: the step it was made at
Obs(step) == [is_none |-> FALSE, step |-> step]

NoObs == [is_none |-> TRUE, step |-> 0]

\* ReWOOReasoning.__init__
RewooInit == [remaining_tool_calls |-> 0, current_plan |-> NoPlan, current_obs |-> NoObs]

\* Plan(llm_plan, step, ttl), returned; or the exception raised
PlanOutcome(r, raised, tool_calls, step) ==
    [rewoo |-> r, raised |-> raised, tool_calls |-> tool_calls, step |-> step, ttl |-> 1]

NoPlanReturned == [raised |-> "none", tool_calls |-> <<>>, step |-> 0, ttl |-> 0]

\* l[i] of a Python list: i counts from 0, a negative i counts from the end
InRange(l, i) == (i >= 0 /\ i < Len(l)) \/ (i < 0 /\ -i <= Len(l))

ListIndex(l, i) == IF i >= 0 THEN l[i + 1] ELSE l[Len(l) + i + 1]

\* plan(), the branch `if self.remaining_tool_calls > 0`: current_plan is
\* self.current_plan itself, so the assignment to current_plan.tool_calls
\* changes the stored plan
Continue(r) ==
    LET index_of_tool == Len(r.current_plan.tool_calls) - r.remaining_tool_calls
        counted == [r EXCEPT !.remaining_tool_calls = @ - 1]
    IN IF ~InRange(r.current_plan.tool_calls, index_of_tool)
       THEN PlanOutcome(counted, "IndexError", <<>>, 0)
       ELSE LET tool_call == <<ListIndex(r.current_plan.tool_calls, index_of_tool)>> IN
            PlanOutcome([counted EXCEPT !.current_plan.tool_calls = tool_call],
                        "none", tool_call, r.current_obs.step)

\* plan(), after that branch: a new observation, the schemas of the tools,
\* the LLM call and the plan stored from its answer
NewPlan(r, obs, export, llm_plan) ==
    LET observed == [r EXCEPT !.current_obs = obs] IN
    IF export.raised # NoExc
    THEN PlanOutcome(observed, export.raised.type, <<>>, 0)
    ELSE PlanOutcome([observed EXCEPT !.remaining_tool_calls = Len(llm_plan.tool_calls),
                                      !.current_plan = llm_plan],
                     "none", llm_plan.tool_calls, obs.step)

\* ReWOOReasoning.plan(prompt, selected_tools=selected_tools)
RewooPlan(r, prompt, agent_step_prompt, obs, export, llm_plan) ==
    IF prompt = PyNone /\ agent_step_prompt = PyNone
    THEN PlanOutcome(r, "ValueError", <<>>, 0)
    ELSE IF r.remaining_tool_calls > 0 THEN Continue(r)
    ELSE NewPlan(r, obs, export, llm_plan)

\* no ReWOOReasoning is in use
RewooNotInUse ==
    /\ rewoo = RewooInit
    /\ step_prompt = PyNone
    /\ stored_plan = <<>>
    /\ plan_calls = 0
    /\ plan_returned = NoPlanReturned

-----------------------------------------------------------------------------
(* SimulationRecorder: recording events and saving them (recording/simulation_recorder.py) *)

\* the recording_config entry of simulation_metadata
RecordingConfig(record_actions) ==
    <<[k |-> "observations", v |-> TRUE], [k |-> "plans", v |-> TRUE],
      [k |-> "actions", v |-> record_actions], [k |-> "messages", v |-> TRUE],
      [k |-> "state_changes", v |-> TRUE]>>

\* SimulationRecorder.__init__; auto_save_interval None is 0, and output_dir
\* is the list of the files written into it
SimulationRecorderInit(auto_save_interval, record_actions) ==
    [auto_save_interval |-> auto_save_interval,
     recording_config   |-> RecordingConfig(record_actions),
     events             |-> <<>>,
     events_since_save  |-> 0,
     output_dir         |-> <<>>]

\* what a method of the recorder leaves: the object, the type of the exception
\* it raised or "none", and the number of save() calls that were entered
RecorderOutcome(r, raised, saves) == [recorder |-> r, raised |-> raised, saves |-> saves]

\* config_key_map.get(event_type, event_type)
ConfigKey(event_type) ==
    CASE event_type = "observation"  -> "observations"
      [] event_type = "plan"         -> "plans"
      [] event_type = "action"       -> "actions"
      [] event_type = "message"      -> "messages"
      [] event_type = "state_change" -> "state_changes"
      [] OTHER                       -> event_type

\* record_config.get(config_key, True)
RecordingEnabled(r, event_type) ==
    \A i \in DOMAIN r.recording_config :
        r.recording_config[i].k = ConfigKey(event_type) => r.recording_config[i].v

RECURSIVE RecordEvent(_, _, _)
RECURSIVE AutoSave(_, _)

\* the tail of save(): the export is written once the simulation_end event is in
SaveWrite(e, filename) ==
    IF e.raised # "none" THEN RecorderOutcome(e.recorder, e.raised, e.saves + 1)
    ELSE RecorderOutcome(
             [e.recorder EXCEPT !.output_dir =
                 Append(@, [filename |-> filename, events |-> Len(e.recorder.events)])],
             "none", e.saves + 1)

\* record_model_event(event_type, content), a call made with `depth` frames
\* on the stack
RecordModelEvent(r, event_type, depth) ==
    IF depth >= RecursionLimit THEN RecorderOutcome(r, "RecursionError", 0)
    ELSE RecordEvent(r, event_type, depth + 1)

\* save(filename), format "json"
Save(r, filename, depth) ==
    IF depth >= RecursionLimit THEN RecorderOutcome(r, "RecursionError", 0)
    ELSE SaveWrite(RecordModelEvent(r, "simulation_end", depth + 1), filename)

\* the tail of auto_save(): the counter is reset once save() has returned
AutoSaveReset(s) ==
    IF s.raised # "none" THEN s
    ELSE RecorderOutcome([s.recorder EXCEPT !.events_since_save = 0], "none", s.saves)

\* auto_save()
AutoSave(r, depth) ==
    IF depth >= RecursionLimit THEN RecorderOutcome(r, "RecursionError", 0)
    ELSE AutoSaveReset(Save(r, <<"autosave", Len(r.events)>>, depth + 1))

\* the tail of record_event(): the auto-save check on the counted event
RecordEventAutoSave(r, depth) ==
    IF r.auto_save_interval # 0 /\ r.events_since_save >= r.auto_save_interval
    THEN AutoSave(r, depth + 1)
    ELSE RecorderOutcome(r, "none", 0)

\* record_event(event_type, content, agent_id)
RecordEvent(r, event_type, depth) ==
    IF depth >= RecursionLimit THEN RecorderOutcome(r, "RecursionError", 0)
    ELSE IF ~RecordingEnabled(r, event_type) THEN RecorderOutcome(r, "none", 0)
    ELSE RecordEventAutoSave([r EXCEPT !.events = Append(@, event_type),
                                       !.events_since_save = @ + 1], depth)

NoRecorderCall == [method |-> "none", raised |-> "none", saves |-> 0]

\* no SimulationRecorder is in use
RecorderNotInUse ==
    /\ recorder = SimulationRecorderInit(0, TRUE)
    /\ recorder_calls = 0
    /\ recorder_returned = NoRecorderCall

-----------------------------------------------------------------------------
(* The dispatch state machine *)

\* argument strings the LLM produces
ArgsParam1 == JObj(<< <<"param1", <<JS("test_value")>> >> >>)
ArgsParam1Extra ==
    JObj(<< <<"param1", <<JS("test_value")>> >>, <<"extra_param", <<JS("ignored")>> >> >>)
ArgsParam1Agent ==
    JObj(<< <<"agent", <<JS("evil")>> >>, <<"param1", <<JS("test_value")>> >> >>)
ArgsParam1AgentExtra ==
    JObj(<< <<"agent", <<JS("evil")>> >>, <<"param1", <<JS("test_value")>> >>,
            <<"extra_param", <<JS("ignored")>> >> >>)
ArgsInvalidJson == <<JBad("invalid"), JBad("json")>>
ArgsArray == <<JP("["), JN("1"), JP("]")>>
ArgsEmpty == JObj(<<>>)
ArgsRequired == JObj(<< <<"required_param", <<JS("test")>> >> >>)
ArgsRequiredExtra ==
    JObj(<< <<"required_param", <<JS("test")>> >>, <<"extra_param", <<JS("ignored")>> >> >>)
ArgsX(lexemes) == JObj(<< <<"x", lexemes>> >>)
ArgsGreet(times) == JObj(<< <<"name", <<JS("Bob")>> >>, <<"times", <<times>> >> >>)
ArgsBuy(product) ==
    JObj(<< <<"chosen_product", <<JS(product)>> >>, <<"chosen_price", <<JN("40")>> >> >>)
ArgsMove == JObj(<< <<"target_coordinates", <<JN("3")>> >> >>)
ArgsSpeak ==
    JObj(<< <<"speaker_agent", <<JS("a")>> >>, <<"listener_agents", <<JP("["), JP("]")>> >>,
            <<"message", <<JS("hi")>> >> >>)

Call(name, arguments) == [name |-> name, arguments |-> arguments]

\* the tool calls an LLM response may hold (function.name, function.arguments)
Requests ==
    { Call("test_tool", ArgsParam1), Call("test_tool", ArgsParam1Extra),
      Call("test_tool", ArgsInvalidJson), Call("test_tool", ArgsParam1Agent),
      Call("test_tool", ArgsParam1AgentExtra),
      Call("test_tool", ArgsArray), Call("test_tool", ArgsEmpty),
      Call("simple_tool", ArgsRequired), Call("simple_tool", ArgsRequiredExtra),
      Call("silent_tool", ArgsEmpty),
      Call("extra_tool", ArgsX(<<JN("0")>>)), Call("extra_tool", ArgsX(<<JS("")>>)),
      Call("extra_tool", ArgsX(<<JL("false")>>)),
      Call("extra_tool", ArgsX(<<JP("["), JP("]")>>)),
      Call("extra_tool", ArgsX(<<JN("7")>>)),
      Call("greet", ArgsGreet(JN("0"))), Call("greet", ArgsGreet(JS("2"))),
      Call("buy_product", ArgsBuy("Brand A Shoes")), Call("buy_product", ArgsBuy("Brand C")),
      Call("move_to_location", ArgsMove), Call("speak_to", ArgsSpeak),
      Call("nonexistent_tool", ArgsEmpty), Call("nonexistent_tool", ArgsInvalidJson) }

\* tool_call.id of the i-th tool call of a response
CallId(i) == "call_" \o IntToStr(i)

WithIds(calls) ==
    [i \in DOMAIN calls |->
        [id |-> CallId(i), name |-> calls[i].name, arguments |-> calls[i].arguments]]

Response(shape, calls) == [shape |-> shape, tool_calls |-> calls]

Responses ==
    {Response("list", WithIds(calls)) : calls \in SeqsUpTo(Requests, MaxBatch)}
    \cup {Response(shape, <<>>) : shape \in {"none", "missing", "notalist"}}

NoResponse == Response("unset", <<>>)

InitialAgent == AgentState(50, PyNone, <<>>)

NoDecoration == [fn |-> "", target |-> "", raised |-> "none"]

\* no _python_to_json_type call has been made
NotCompiled == [ok |-> FALSE, val |-> PyNone, exc |-> NoExc]

NoExport == [called |-> FALSE, args |-> <<>>, raised |-> "none", schemas |-> <<>>]

Init ==
    /\ tools = RegisterAll(ToolManagerInit, UserTools)
    /\ agent = InitialAgent
    /\ pc = "idle"
    /\ llm_response = NoResponse
    /\ agent_before = InitialAgent
    /\ tool_results = <<>>
    /\ raised_out = "none"
    /\ call_log = <<>>
    /\ global_registry = <<>>
    /\ tool_schema = <<>>
    /\ tool_callbacks = <<>>
    /\ notified = <<>>
    /\ decorated = NoDecoration
    /\ exported = NoExport
    /\ n_ops = 0
    /\ other_tools = ToolManagerInit
    /\ py_type = TyEmpty
    /\ json_type = NotCompiled
    /\ MemoryNotInUse
    /\ RewooNotInUse
    /\ RecorderNotInUse

\* LLMAgent.apply_plan, first half: self.tool_manager.call_tools(agent=self, llm_response=...)
CallToolsStep ==
    /\ pc = "idle"
    /\ \E resp \in Responses : \E r \in {CallTools(tools, agent, resp)} :
          /\ llm_response' = resp
          /\ agent_before' = agent
          /\ agent' = r.agent
          /\ tool_results' = r.results
          /\ raised_out' = r.raised
          /\ call_log' = r.log
    /\ pc' = "returned"
    /\ UNCHANGED <<tools, registry_vars, compile_vars, memory_vars, rewoo_vars, recorder_vars>>

\* LLMAgent.apply_plan, second half: the responses are handed on and the call ends
ApplyPlanReturn ==
    /\ pc = "returned"
    /\ pc' = "idle"
    /\ llm_response' = NoResponse
    /\ agent_before' = agent
    /\ tool_results' = <<>>
    /\ raised_out' = "none"
    /\ call_log' = <<>>
    /\ UNCHANGED <<tools, agent, registry_vars, compile_vars, memory_vars, rewoo_vars,
                   recorder_vars>>

Next == CallToolsStep \/ ApplyPlanReturn

Spec == Init /\ [][Next]_vars

-----------------------------------------------------------------------------
(* Registration and schema export as a state machine *)

\* the functions the application decorates with @tool / @tool(tool_manager=...)
DecoratorInputs ==
    {greet, greet_default, move_to_location, speak_to, test_tool_undocumented_agent,
     no_schema_tool}

\* where a registration goes: the ToolManager given as tool_manager=, or
\* _GLOBAL_TOOL_REGISTRY when none is given
Managers == {"tools", "other_tools"}

Targets == {"registry"} \cup Managers

\* the functions the application hands to ToolManager.register itself
RegisterInputs == {test_tool, bad_func}

\* the observers the application adds with add_tool_callback
Callbacks == {"observer"}

\* the selected_tools the reasoning classes pass to get_all_tools_schema
SelectedTools ==
    { PyNone,
      PyList(<<PyStr(<<"greet">>)>>),
      PyList(<<PyStr(<<"speak_to">>), PyStr(<<"nonexistent_tool">>)>>) }

InitRegistry ==
    /\ tools = ToolManagerInit
    /\ agent = InitialAgent
    /\ pc = "idle"
    /\ llm_response = NoResponse
    /\ agent_before = InitialAgent
    /\ tool_results = <<>>
    /\ raised_out = "none"
    /\ call_log = <<>>
    /\ global_registry = <<>>
    /\ tool_schema = <<>>
    /\ tool_callbacks = <<>>
    /\ notified = <<>>
    /\ decorated = NoDecoration
    /\ exported = NoExport
    /\ n_ops = 0
    /\ other_tools = ToolManagerInit
    /\ py_type = TyEmpty
    /\ json_type = NotCompiled
    /\ MemoryNotInUse
    /\ RewooNotInUse
    /\ RecorderNotInUse

\* the callbacks loop of the decorator: one call per callback, in order
NotifyAll(fn) == [i \in DOMAIN tool_callbacks |-> [callback |-> tool_callbacks[i], fn |-> fn.id]]

\* mutant: a decorated tool is also added to every ToolManager instance
DecorateAllManagers(fn, target) ==
    /\ n_ops < MaxOps
    /\ ~exported.called
    /\ \E c \in {CompileToolSchema(fn)} :
          /\ c.ok
          /\ tool_schema' = DictSet(tool_schema, fn.id, c.schema)
    /\ decorated' = [fn |-> fn.id, target |-> target, raised |-> "none"]
    /\ tools' = Register(tools, fn)
    /\ other_tools' = Register(other_tools, fn)
    /\ IF target = "registry"
       THEN /\ global_registry' = DictSet(global_registry, fn.name, fn.id)
            /\ notified' = notified \o NotifyAll(fn)
       ELSE UNCHANGED <<global_registry, notified>>
    /\ n_ops' = n_ops + 1
    /\ UNCHANGED <<compile_vars, memory_vars, rewoo_vars, recorder_vars, dispatch_vars, tool_callbacks, exported>>

\* decorator(func) with the tool_manager argument of the enclosing tool(...)
Decorate(fn, target) ==
    /\ n_ops < MaxOps
    /\ ~exported.called
    /\ \E c \in {CompileToolSchema(fn)} :
          IF ~c.ok
          THEN /\ decorated' = [fn |-> fn.id, target |-> target, raised |-> c.exc.type]
               /\ UNCHANGED <<tools, other_tools, global_registry, tool_schema, notified>>
          ELSE /\ decorated' = [fn |-> fn.id, target |-> target, raised |-> "none"]
               /\ tool_schema' = DictSet(tool_schema, fn.id, c.schema)
               /\ CASE target = "tools" ->
                         /\ tools' = Register(tools, fn)
                         /\ UNCHANGED <<other_tools, global_registry, notified>>
                    [] target = "other_tools" ->
                         /\ other_tools' = Register(other_tools, fn)
                         /\ UNCHANGED <<tools, global_registry, notified>>
                    [] OTHER ->
                         /\ global_registry' = DictSet(global_registry, fn.name, fn.id)
                         /\ notified' = notified \o NotifyAll(fn)
                         /\ UNCHANGED <<tools, other_tools>>
    /\ n_ops' = n_ops + 1
    /\ UNCHANGED <<compile_vars, memory_vars, rewoo_vars, recorder_vars, dispatch_vars, tool_callbacks, exported>>

\* @tool / @tool(tool_manager=...) applied to fn
ToolDecoratorStep == \E fn \in DecoratorInputs, target \in Targets : Decorate(fn, target)

\* manager.register(fn) on one of the two ToolManagers
RegisterCall(fn, manager) ==
    /\ n_ops < MaxOps
    /\ ~exported.called
    /\ IF manager = "tools"
       THEN tools' = Register(tools, fn) /\ UNCHANGED other_tools
       ELSE other_tools' = Register(other_tools, fn) /\ UNCHANGED tools
    /\ n_ops' = n_ops + 1
    /\ UNCHANGED <<compile_vars, memory_vars, rewoo_vars, recorder_vars, dispatch_vars, global_registry, tool_schema, tool_callbacks,
                   notified, decorated, exported>>

\* tool_manager.register(fn)
RegisterStep == \E fn \in RegisterInputs, manager \in Managers : RegisterCall(fn, manager)

\* ToolManager(): a second manager is constructed anew
NewToolManagerStep ==
    /\ n_ops < MaxOps
    /\ ~exported.called
    /\ other_tools' = ToolManagerInit
    /\ n_ops' = n_ops + 1
    /\ UNCHANGED <<compile_vars, memory_vars, rewoo_vars, recorder_vars, dispatch_vars, tools, global_registry, tool_schema,
                   tool_callbacks, notified, decorated, exported>>

\* add_tool_callback(callback)
AddToolCallbackStep ==
    /\ n_ops < MaxOps
    /\ ~exported.called
    /\ \E cb \in Callbacks : tool_callbacks' = Append(tool_callbacks, cb)
    /\ n_ops' = n_ops + 1
    /\ UNCHANGED <<compile_vars, memory_vars, rewoo_vars, recorder_vars, dispatch_vars, tools, other_tools, global_registry,
                   tool_schema, notified, decorated, exported>>

\* ReActReasoning.plan: self.agent.tool_manager.get_all_tools_schema()
ExportAllStep ==
    /\ ~exported.called
    /\ \E r \in {GetAllToolsSchema(tools, <<>>)} :
       exported' = [called |-> TRUE, args |-> <<>>, raised |-> r.raised.type,
                    schemas |-> r.schemas]
    /\ UNCHANGED <<compile_vars, memory_vars, rewoo_vars, recorder_vars, dispatch_vars, tools, other_tools, global_registry,
                   tool_schema, tool_callbacks, notified, decorated, n_ops>>

\* CoTReasoning.plan: self.agent.tool_manager.get_all_tools_schema(selected_tools)
ExportSelectedStep ==
    /\ ~exported.called
    /\ \E selected_tools \in SelectedTools :
          \E r \in {GetAllToolsSchema(tools, <<selected_tools>>)} :
          exported' = [called |-> TRUE, args |-> <<selected_tools>>, raised |-> r.raised.type,
                       schemas |-> r.schemas]
    /\ UNCHANGED <<compile_vars, memory_vars, rewoo_vars, recorder_vars, dispatch_vars, tools, other_tools, global_registry,
                   tool_schema, tool_callbacks, notified, decorated, n_ops>>

\* plan(): the schemas are handed to the LLM call and the export ends
PlanReturn ==
    /\ exported.called
    /\ exported' = NoExport
    /\ UNCHANGED <<compile_vars, memory_vars, rewoo_vars, recorder_vars, dispatch_vars, tools, other_tools, global_registry,
                   tool_schema, tool_callbacks, notified, decorated, n_ops>>

NextRegistry ==
    \/ ToolDecoratorStep
    \/ RegisterStep
    \/ NewToolManagerStep
    \/ AddToolCallbackStep
    \/ ExportAllStep
    \/ ExportSelectedStep
    \/ PlanReturn

SpecRegistry == InitRegistry /\ [][NextRegistry]_vars

-----------------------------------------------------------------------------
(* The type schema compiler applied to the annotations a tool can declare *)

\* the classes an annotation names: two primitives, a class the compiler has
\* no entry for, type(None) ("NoneType") and the object None ("None")
AtomicTypes ==
    {Ty("int", <<>>), Ty("str", <<>>), Ty("LLMAgent", <<>>), Ty("NoneType", <<>>),
     Ty("None", <<>>)}

\* the generics and the union an annotation is built with
GenericTypes == {"list[]", "set[]", "tuple[]", "dict[]", "Union"}

\* what Python accepts and keeps as written: list[T], set[T], dict[K, V],
\* tuple[T1, ...], and a union of two or more distinct members none of which is
\* a union (typing flattens nested unions and drops repeated members).  A None
\* written in a union becomes type(None); list, set, tuple and dict keep the
\* object None as their argument
IsAnnotation(t) ==
    CASE t.k \in {"list[]", "set[]"} ->
            Len(t.args) = 1 /\ t.args[1].k # "NoneType"
      [] t.k = "dict[]" ->
            Len(t.args) = 2 /\ \A i \in DOMAIN t.args : t.args[i].k # "NoneType"
      [] t.k = "Union" ->
            /\ Len(t.args) >= 2
            /\ \A i, j \in DOMAIN t.args : t.args[i] = t.args[j] => i = j
            /\ \A i \in DOMAIN t.args : t.args[i].k \notin {"Union", "None"}
      [] OTHER ->
            Len(t.args) >= 1 /\ \A i \in DOMAIN t.args : t.args[i].k # "NoneType"

\* tuple[T, ...], the tuple of any length: get_args gives (T, Ellipsis)
VariableLengthTuple(t) == Ty("tuple[]", <<t, Ty("Ellipsis", <<>>)>>)

RECURSIVE TypesOfSize(_), ArgLists(_)
\* the annotations written with exactly n classes and generics (the "..." of
\* a tuple of any length counts as one)
TypesOfSize(n) ==
    IF n = 1 THEN AtomicTypes
    ELSE {t \in {Ty(g, args) : g \in GenericTypes, args \in ArgLists(n - 1)} : IsAnnotation(t)}
         \cup (IF n >= 3
               THEN {VariableLengthTuple(t) : t \in {u \in TypesOfSize(n - 2) : u.k # "NoneType"}}
               ELSE {})

\* the argument lists written with exactly m classes and generics
ArgLists(m) ==
    {<<t>> : t \in TypesOfSize(m)}
    \cup UNION {{<<t>> \o rest : t \in TypesOfSize(k), rest \in ArgLists(m - k)} :
                   k \in 1..(m - 1)}

TypeUniverse == UNION {TypesOfSize(n) : n \in 1..MaxTypeSize}

InitCompile ==
    /\ tools = ToolManagerInit
    /\ agent = InitialAgent
    /\ pc = "idle"
    /\ llm_response = NoResponse
    /\ agent_before = InitialAgent
    /\ tool_results = <<>>
    /\ raised_out = "none"
    /\ call_log = <<>>
    /\ global_registry = <<>>
    /\ tool_schema = <<>>
    /\ tool_callbacks = <<>>
    /\ notified = <<>>
    /\ decorated = NoDecoration
    /\ exported = NoExport
    /\ n_ops = 0
    /\ other_tools = ToolManagerInit
    /\ py_type \in TypeUniverse
    /\ json_type = NotCompiled
    /\ MemoryNotInUse
    /\ RewooNotInUse
    /\ RecorderNotInUse

\* type_schema = _python_to_json_type(raw_type)
PythonToJsonTypeStep ==
    /\ json_type = NotCompiled
    /\ json_type' = PythonToJsonType(py_type)
    /\ UNCHANGED <<py_type, tools, dispatch_vars, registry_vars, memory_vars, rewoo_vars,
                   recorder_vars>>

NextCompile == PythonToJsonTypeStep

SpecCompile == InitCompile /\ [][NextCompile]_vars

-----------------------------------------------------------------------------
(* An agent's memory over the steps of the model *)

\* the short_term_capacity and consolidation_capacity a Memory is built with
ShortTermCapacities == {0, 1, 2}

ConsolidationCapacities == {0, 1}

\* add_to_memory(type, content): an observation, or an entry of type "step"
MemoryInputs ==
    {[type |-> t, content |-> <<[k |-> "content", v |-> <<"content_0">>]>>] :
        t \in {"observation", "step"}}

\* what the LLM can answer to a summary prompt
Summaries == {<<"Consolidated memory summary">>}

InitMemory ==
    /\ tools = ToolManagerInit
    /\ agent = InitialAgent
    /\ pc = "idle"
    /\ llm_response = NoResponse
    /\ agent_before = InitialAgent
    /\ tool_results = <<>>
    /\ raised_out = "none"
    /\ call_log = <<>>
    /\ global_registry = <<>>
    /\ tool_schema = <<>>
    /\ tool_callbacks = <<>>
    /\ notified = <<>>
    /\ decorated = NoDecoration
    /\ exported = NoExport
    /\ n_ops = 0
    /\ other_tools = ToolManagerInit
    /\ py_type = TyEmpty
    /\ json_type = NotCompiled
    /\ \E c \in ShortTermCapacities, cc \in ConsolidationCapacities, d \in BOOLEAN :
          memory = MemoryInit(c, cc, d)
    /\ model_steps = 0
    /\ memory_pc = "idle"
    /\ llm_calls = 0
    /\ llm_prompt = SummaryPrompt(memory)
    /\ evicted = <<>>
    /\ memory_raised = "none"
    /\ RewooNotInUse
    /\ RecorderNotInUse

\* the model advances to its next step and the agent's step begins
ModelStep ==
    /\ memory_pc = "idle"
    /\ model_steps < MaxModelSteps
    /\ model_steps' = model_steps + 1
    /\ memory_pc' = "pre"
    /\ UNCHANGED <<memory, llm_calls, llm_prompt, evicted, memory_raised>>
    /\ UNCHANGED <<tools, dispatch_vars, registry_vars, compile_vars, rewoo_vars, recorder_vars>>

\* memory.add_to_memory(type, content), by the agent or by its reasoning
AddToMemoryStep ==
    /\ \E input \in MemoryInputs :
          memory' = AddToMemory(memory, input.type, input.content)
    /\ UNCHANGED <<model_steps, memory_pc, llm_calls, llm_prompt, evicted, memory_raised>>
    /\ UNCHANGED <<tools, dispatch_vars, registry_vars, compile_vars, rewoo_vars, recorder_vars>>

\* a process_step call and what it leaves behind
ProcessStepCall(pre_step) ==
    \E response \in Summaries :
    \E r \in {ProcessStep(memory, pre_step, model_steps, response)} :
        /\ memory' = r.memory
        /\ memory_raised' = r.raised
        /\ evicted' = r.removed
        /\ llm_calls' = llm_calls + Len(r.prompts)
        /\ llm_prompt' = IF r.prompts = <<>> THEN llm_prompt ELSE r.prompts[Len(r.prompts)]
        /\ UNCHANGED model_steps
        /\ UNCHANGED <<tools, dispatch_vars, registry_vars, compile_vars, rewoo_vars, recorder_vars>>

\* memory.process_step(pre_step=True), before the agent's step
PreStep ==
    /\ memory_pc = "pre"
    /\ memory_pc' = "post"
    /\ ProcessStepCall(TRUE)

\* memory.process_step(pre_step=False), after the agent's step
PostStep ==
    /\ memory_pc = "post"
    /\ memory_pc' = "idle"
    /\ ProcessStepCall(FALSE)

NextMemory ==
    \/ ModelStep
    \/ AddToMemoryStep
    \/ PreStep
    \/ PostStep

SpecMemory == InitMemory /\ [][NextMemory]_vars

-----------------------------------------------------------------------------
(* ReWOO planning over the steps of an agent *)

\* the tool calls of the plans the LLM makes
PlanToolCalls == {Call("move_to_location", ArgsMove), Call("speak_to", ArgsSpeak)}

StoredPlans == {WithIds(calls) : calls \in SeqsUpTo(PlanToolCalls, MaxPlanCalls)}

Prompts == {PyNone, PyStr(<<"Continue plan">>)}

\* a reasoning object as __init__ leaves it, or one that holds a plan of N
\* tool calls with remaining_tool_calls = N
InitRewoo ==
    /\ tools = ToolManagerInit
    /\ agent = InitialAgent
    /\ pc = "idle"
    /\ llm_response = NoResponse
    /\ agent_before = InitialAgent
    /\ tool_results = <<>>
    /\ raised_out = "none"
    /\ call_log = <<>>
    /\ global_registry = <<>>
    /\ tool_schema = <<>>
    /\ tool_callbacks = <<>>
    /\ notified = <<>>
    /\ decorated = NoDecoration
    /\ exported = NoExport
    /\ n_ops = 0
    /\ other_tools = ToolManagerInit
    /\ py_type = TyEmpty
    /\ json_type = NotCompiled
    /\ MemoryNotInUse
    /\ stored_plan \in StoredPlans
    /\ rewoo = IF stored_plan = <<>> THEN RewooInit
               ELSE [remaining_tool_calls |-> Len(stored_plan),
                     current_plan |-> LlmPlan(stored_plan),
                     current_obs |-> Obs(1)]
    /\ step_prompt \in Prompts
    /\ plan_calls = 0
    /\ plan_returned = NoPlanReturned
    /\ RecorderNotInUse

\* reasoning.plan(prompt, selected_tools=...), called by the agent at a step
RewooPlanStep ==
    /\ plan_calls <= MaxPlanCalls
    /\ \E prompt \in Prompts, selected_tools \in SelectedTools, llm_plan \in StoredPlans :
       \E r \in {RewooPlan(rewoo, prompt, step_prompt, Obs(2),
                           GetAllToolsSchema(tools, <<selected_tools>>), LlmPlan(llm_plan))} :
          /\ rewoo' = r.rewoo
          /\ plan_returned' = [raised |-> r.raised, tool_calls |-> r.tool_calls,
                               step |-> r.step, ttl |-> r.ttl]
    /\ plan_calls' = plan_calls + 1
    /\ UNCHANGED <<step_prompt, stored_plan>>
    /\ UNCHANGED <<tools, dispatch_vars, registry_vars, compile_vars, memory_vars, recorder_vars>>

NextRewoo == RewooPlanStep

SpecRewoo == InitRewoo /\ [][NextRewoo]_vars

-----------------------------------------------------------------------------
(* A simulation recorded over the calls made to its recorder *)

\* auto_save_interval: None (0) or a number of events
AutoSaveIntervals == {0, 1, 2, 3}

\* the event types the agents record
EventTypes == {"action", "plan"}

InitRecorder ==
    /\ tools = ToolManagerInit
    /\ agent = InitialAgent
    /\ pc = "idle"
    /\ llm_response = NoResponse
    /\ agent_before = InitialAgent
    /\ tool_results = <<>>
    /\ raised_out = "none"
    /\ call_log = <<>>
    /\ global_registry = <<>>
    /\ tool_schema = <<>>
    /\ tool_callbacks = <<>>
    /\ notified = <<>>
    /\ decorated = NoDecoration
    /\ exported = NoExport
    /\ n_ops = 0
    /\ other_tools = ToolManagerInit
    /\ py_type = TyEmpty
    /\ json_type = NotCompiled
    /\ MemoryNotInUse
    /\ RewooNotInUse
    /\ \E auto_save_interval \in AutoSaveIntervals, record_actions \in BOOLEAN :
           recorder = SimulationRecorderInit(auto_save_interval, record_actions)
    /\ recorder_calls = 0
    /\ recorder_returned = NoRecorderCall

\* what a call to the recorder leaves behind
RecorderCallReturns(method, out) ==
    /\ recorder' = out.recorder
    /\ recorder_returned' = [method |-> method, raised |-> out.raised, saves |-> out.saves]
    /\ recorder_calls' = recorder_calls + 1
    /\ UNCHANGED <<tools, dispatch_vars, registry_vars, compile_vars, memory_vars, rewoo_vars>>

\* recorder.record_event(event_type, content, agent_id), called by an agent
RecordEventStep ==
    /\ recorder_calls < MaxRecorderCalls
    /\ \E event_type \in EventTypes :
           RecorderCallReturns("record_event", RecordEvent(recorder, event_type, 0))

\* recorder.save(), called when the simulation ends
SaveStep ==
    /\ recorder_calls < MaxRecorderCalls
    /\ RecorderCallReturns("save", Save(recorder, <<"simulation">>, 0))

NextRecorder == RecordEventStep \/ SaveStep

SpecRecorder == InitRecorder /\ [][NextRecorder]_vars

-----------------------------------------------------------------------------
(* Properties of call dispatch *)

Calls == llm_response.tool_calls

\* call_tools has returned from a response that holds a list of tool calls
Dispatched == pc = "returned" /\ llm_response.shape = "list"

IsError(result) == StartsWith(result.response, <<"Error: ">>)

ErrorCount(results) == Cardinality({i \in DOMAIN results : IsError(results[i])})

\* the attempts made for tool call i, and the number of them that entered the body
AttemptsOf(i) == SelectSeq(call_log, LAMBDA e : e.req = i)

BodyRuns(i) == Len(SelectSeq(call_log, LAMBDA e : e.req = i /\ e.ran))

\* the attempt of tool call i that entered the body (when exactly one did)
RunningAttempt(i) == SelectSeq(call_log, LAMBDA e : e.req = i /\ e.ran)[1]

WithoutReq(log) ==
    [j \in DOMAIN log |-> [fn |-> log[j].fn, attempt |-> log[j].attempt, kw |-> log[j].kw,
                           ran |-> log[j].ran, raised |-> log[j].raised, ret |-> log[j].ret]]

\* the caller state when tool call i starts
AgentAt(i) == ToolCallLoop(tools, agent_before, SubSeq(Calls, 1, i - 1), 1, <<>>, <<>>).agent

ParsedArgs(i) == JsonLoads(Calls[i].arguments)

\* tool call i names a registered tool and its argument string is a JSON object
WellFormed(i) ==
    /\ HasTool(tools, Calls[i].name)
    /\ ParsedArgs(i).ok
    /\ ParsedArgs(i).val.ty = "dict"

ToolOf(i) == Fn(DictGet(tools, Calls[i].name))

DeclaredArgNames(fn) == Range(fn.params) \ {"agent"}

ArgKeys(i) == DictKeys(ParsedArgs(i).val.items)

\* the keyword arguments of the intended call: the caller context for a tool
\* that declares it, and the arguments the tool declares
IntendedKw(i) ==
    (IF "agent" \in Range(ToolOf(i).params) THEN <<[k |-> "agent", v |-> PyAgent]>> ELSE <<>>)
    \o FilteredArgs(ToolOf(i), ParsedArgs(i).val)

IntendedCall(i) == CallFn(ToolOf(i), IntendedKw(i), AgentAt(i))

\* tool call i failed: unknown tool, malformed arguments, or the tool raised
Failed(i) ==
    \/ ~HasTool(tools, Calls[i].name)
    \/ ~ParsedArgs(i).ok
    \/ AttemptsOf(i) # <<>> /\ AttemptsOf(i)[Len(AttemptsOf(i))].raised

\* C1: call_tools returns one result per request, in input order, each carrying
\* the id and the tool name of its request, whatever the requests are and
\* however they end; no earlier result is lost when a later request fails.
C1_OneResultPerRequest ==
    Dispatched =>
        /\ Len(tool_results) = Len(Calls)
        /\ \A i \in DOMAIN Calls :
              /\
                 tool_results[i].tool_call_id = Calls[i].id
              /\ tool_results[i].name = Calls[i].name
              /\ tool_results[i].role = "tool"

\* a batch whose first request succeeded and whose second failed
C1_Witness ==
    /\ Dispatched
    /\ Len(Calls) = 2 /\ Len(tool_results) = 2
    /\ ~IsError(tool_results[1]) /\ IsError(tool_results[2])
    /\ tool_results[1].tool_call_id = Calls[1].id

\* C2: call_tools never lets an exception reach its caller; every request that
\* failed (unknown tool, malformed arguments, a tool that raised) is answered
\* in the returned list by an error result.
C2_NeverRaises ==
    pc = "returned" =>
        /\ raised_out = "none"
        /\ llm_response.shape = "list" =>
              \A i \in DOMAIN Calls :
                 Failed(i) => i <= Len(tool_results) /\ IsError(tool_results[i])

\* a batch with malformed arguments and a tool whose body raised
C2_Witness ==
    /\ Dispatched
    /\ raised_out = "none"
    /\ \E i, j \in DOMAIN Calls :
          /\ HasTool(tools, Calls[i].name) /\ ~ParsedArgs(i).ok
          /\ AttemptsOf(j) # <<>> /\ AttemptsOf(j)[Len(AttemptsOf(j))].ran
          /\ AttemptsOf(j)[Len(AttemptsOf(j))].raised

UnknownAt == {i \in DOMAIN Calls : ~HasTool(tools, Calls[i].name)}

\* C3: batch isolation.  When exactly one request of the batch names an
\* unregistered tool, there are N results, that request's result is an error
\* naming the tool, no tool function is invoked for it, and the other requests
\* get the results, make the invocations and leave the caller state that the
\* batch without the bad request gives, in the same order.
C3_BatchIsolation ==
    (Dispatched /\ Cardinality(UnknownAt) = 1) =>
        LET k == CHOOSE i \in UnknownAt : TRUE
            alone == CallTools(tools, agent_before, Response("list", RemoveAt(Calls, k)))
        IN /\ Len(tool_results) = Len(Calls)
           /\ IsError(tool_results[k])
           /\ Contains(tool_results[k].response, <<Calls[k].name>>)
           /\ AttemptsOf(k) = <<>>
           /\ RemoveAt(tool_results, k) = alone.results
           /\ WithoutReq(call_log) = WithoutReq(alone.log)
           /\ agent = alone.agent
           /\ ErrorCount(tool_results) = 1 + ErrorCount(alone.results)

\* the bad request comes first and the request after it changes the caller state
C3_Witness ==
    /\ Dispatched
    /\ Len(Calls) = 2 /\ UnknownAt = {1}
    /\ Len(tool_results) = 2 /\ ~IsError(tool_results[2])
    /\ agent # agent_before

\* C4: key-filtering fallback.  For every registered tool, declaring the agent
\* parameter or not, a request whose argument object holds the declared
\* argument names and unknown extra keys besides succeeds: the result is the
\* success result of the call with the declared keys.
C4_SupersetKeysSucceed ==
    Dispatched =>
        \A i \in DOMAIN Calls :
           ( /\ WellFormed(i)
             /\ DeclaredArgNames(ToolOf(i)) \subseteq ArgKeys(i)
             /\ "agent" \notin ArgKeys(i)
             /\ ~IntendedCall(i).raised )
           => /\ i <= Len(tool_results)
              /\ ~IsError(tool_results[i])

\* C5: a request whose argument string is no valid JSON gets an error result
\* with its id and tool name whose message embeds the message of the JSON
\* parse failure; the tool is not invoked and the batch goes on.
C5_MalformedArgsEmbedParseError ==
    Dispatched =>
        \A i \in DOMAIN Calls :
           (HasTool(tools, Calls[i].name) /\ ~ParsedArgs(i).ok)
           => /\ Len(tool_results) = Len(Calls)
              /\ tool_results[i].tool_call_id = Calls[i].id
              /\ tool_results[i].name = Calls[i].name
              /\ IsError(tool_results[i])
              /\ AttemptsOf(i) = <<>>
              /\ Contains(tool_results[i].response, ParsedArgs(i).exc.msg)

\* C6: when the invocation of a tool returns a falsy value (None, "", 0, False,
\* an empty collection) the response is "<toolName> executed successfully";
\* the response of every result is a non-empty string.
C6_EmptyResultNormalized ==
    Dispatched =>
        /\ \A i \in DOMAIN tool_results : tool_results[i].response # <<>>
        /\ \A i \in DOMAIN Calls :
              LET a == AttemptsOf(i) IN
              (a # <<>> /\ ~a[Len(a)].raised /\ ~Truthy(a[Len(a)].ret))
              => /\ i <= Len(tool_results)
                 /\ tool_results[i].response = <<Calls[i].name, " executed successfully">>

\* one tool returned the empty string, another one 0
C6_Witness ==
    /\ Dispatched
    /\ Len(tool_results) = Len(Calls)
    /\ \E i, j \in DOMAIN Calls :
          /\ AttemptsOf(i) # <<>> /\ AttemptsOf(j) # <<>>
          /\ LET a == AttemptsOf(i)[Len(AttemptsOf(i))]
                 b == AttemptsOf(j)[Len(AttemptsOf(j))]
             IN /\ ~a.raised /\ a.ret = PyStr(<<>>)
                /\ ~b.raised /\ b.ret = PyInt("0")
          /\ tool_results[i].response = <<Calls[i].name, " executed successfully">>

\* the argument object of tool call i has exactly the declared argument names,
\* and the tool returns when run with them
ExactKeysAndReturns(i) ==
    /\ WellFormed(i)
    /\ ArgKeys(i) = DeclaredArgNames(ToolOf(i))
    /\ ~IntendedCall(i).raised

\* C7 as stated: a request naming a registered tool with exactly its declared
\* non-caller parameters invokes the tool exactly once, with the caller context
\* plus the parsed arguments, and the result's response is the stringified
\* return value.
C7_Original ==
    Dispatched =>
        \A i \in DOMAIN Calls :
           ExactKeysAndReturns(i)
           => /\ Len(AttemptsOf(i)) = 1
              /\ AttemptsOf(i)[1].ran
              /\ AttemptsOf(i)[1].kw
                    = <<[k |-> "agent", v |-> PyAgent]>> \o ParsedArgs(i).val.items
              /\ i <= Len(tool_results)
              /\ tool_results[i]
                    = ToolResult(Calls[i].id, Calls[i].name, Str(AttemptsOf(i)[1].ret))

\* C7 amended: such a request runs the body of the tool exactly once, with the
\* parsed arguments and, for a tool that declares the agent parameter, the
\* caller context; the response is the stringified return value, or the
\* acknowledgement string when the return value is falsy.
C7_ExactKeysInvokeOnce ==
    Dispatched =>
        \A i \in DOMAIN Calls :
           ExactKeysAndReturns(i)
           => /\ BodyRuns(i) = 1
              /\ RunningAttempt(i).kw = IntendedKw(i)
              /\ "agent" \in Range(ToolOf(i).params) =>
                    /\ Len(AttemptsOf(i)) = 1
                    /\ DictGet(RunningAttempt(i).kw, "agent") = PyAgent
              /\ i <= Len(tool_results)
              /\ tool_results[i]
                    = ToolResult(Calls[i].id, Calls[i].name,
                                 IF Truthy(RunningAttempt(i).ret)
                                 THEN Str(RunningAttempt(i).ret)
                                 ELSE <<Calls[i].name, " executed successfully">>)

\* a tool that declares agent ran once with the caller context and changed it,
\* and a tool that does not declare agent ran once through the fallback
C7_Witness ==
    /\ Dispatched
    /\ Len(Calls) = 2 /\ Len(tool_results) = 2
    /\ ExactKeysAndReturns(1) /\ ExactKeysAndReturns(2)
    /\ "agent" \in Range(ToolOf(1).params) /\ agent # agent_before
    /\ "agent" \notin Range(ToolOf(2).params)
    /\ ~IsError(tool_results[1]) /\ ~IsError(tool_results[2])

\* the outcome of the first attempt of tool call i
FirstOutcome(i) == CallFn(ToolOf(i), AttemptsOf(i)[1].kw, AgentAt(i))

\* C24: the tool function is invoked at most twice for a request, and the
\* second invocation is key-filtering only: its keyword arguments are the
\* parsed arguments whose key is a declared parameter of the tool, in the same
\* order and with the same values, and no other key.
C24_RetryIsKeyFilteringOnly ==
    Dispatched =>
        \A i \in DOMAIN Calls :
           /\ Len(AttemptsOf(i)) <= 2
           /\ (WellFormed(i) /\ Len(AttemptsOf(i)) = 2) =>
                 LET kw == AttemptsOf(i)[2].kw
                     parsed == ParsedArgs(i).val.items
                 IN /\ DictKeys(kw) = ArgKeys(i) \cap Range(ToolOf(i).params)
                    /\ \A j \in DOMAIN kw : DictGet(parsed, kw[j].k) = kw[j].v
                    /\ kw = SelectSeq(parsed, LAMBDA kv : kv.k \in DictKeys(kw))

\* a retry ran the body of the tool with fewer keys than the request gave
C24_Witness ==
    /\ Dispatched
    /\ \E i \in DOMAIN Calls :
          /\ WellFormed(i)
          /\ Len(AttemptsOf(i)) = 2
          /\ AttemptsOf(i)[2].ran
          /\ AttemptsOf(i)[2].kw # <<>>
          /\ Len(AttemptsOf(i)[2].kw) < Len(ParsedArgs(i).val.items)

\* C25: the filtered retry is made only when the first invocation failed
\* while binding the arguments to the declared parameters; when the body of
\* the tool raises, whatever the exception, the tool is not invoked a second
\* time and the result of the request is "Error: " and the exception's message.
C25_BodyExceptionIsNotRetried ==
    Dispatched =>
        \A i \in DOMAIN Calls :
           /\ Len(AttemptsOf(i)) = 2 => ~AttemptsOf(i)[1].ran
           /\ (AttemptsOf(i) # <<>> /\ AttemptsOf(i)[1].ran /\ AttemptsOf(i)[1].raised) =>
                 /\ Len(AttemptsOf(i)) = 1
                 /\ i <= Len(tool_results)
                 /\ tool_results[i].response = <<"Error: ">> \o FirstOutcome(i).exc.msg

\* C26: a tool that declares the agent parameter, called with arguments that
\* contain a key the tool does not declare, gets exactly one result, with the
\* request's id, whose response starts with "Error:".
C26_ExtraKeyForAgentToolIsError ==
    Dispatched =>
        \A i \in DOMAIN Calls :
           ( /\ WellFormed(i)
             /\ "agent" \in Range(ToolOf(i).params)
             /\ ArgKeys(i) \ Range(ToolOf(i).params) # {} )
           => /\ Len(tool_results) = Len(Calls)
              /\ tool_results[i].tool_call_id = Calls[i].id
              /\ IsError(tool_results[i])

\* C27: a tool never runs with a caller-supplied value bound to its agent
\* parameter: in every invocation that enters the body of a tool declaring
\* agent, agent is the object the application passed to call_tools.
C27_AgentIsTheCallerContext ==
    Dispatched =>
        \A j \in DOMAIN call_log :
           (call_log[j].ran /\ "agent" \in DictKeys(call_log[j].kw))
           => DictGet(call_log[j].kw, "agent") = PyAgent

\* the response reports a parameter left without a value
IsMissingArgument(result) == Contains(result.response, <<"() missing ">>)

\* C28: the parameters the decorator leaves out of properties/required are
\* the ones call_tools supplies in every invocation it makes, so a request
\* that gives every parameter listed in required never fails for a missing
\* argument.
C28_OmittedParameterIsSupplied ==
    Dispatched =>
        \A i \in DOMAIN Calls :
           ( /\ WellFormed(i)
             /\ Range(RequiredParams(ToolOf(i))) \subseteq ArgKeys(i) )
           => /\ \A j \in DOMAIN AttemptsOf(i) :
                    Range(ToolOf(i).params) \ Range(RequiredParams(ToolOf(i)))
                        \subseteq DictKeys(AttemptsOf(i)[j].kw)
              /\ i <= Len(tool_results)
              /\ ~IsMissingArgument(tool_results[i])

-----------------------------------------------------------------------------
(* Properties of registration and schema export *)

\* the schema attached to the function with identity id
SchemaOf(id) == DictGet(tool_schema, id).function

\* C8: for every tool registered through the tool decorator, the schema's
\* required list is the declared parameter names minus the caller-context
\* parameter, in signature order, and is the key set of properties; a
\* parameter with a default value in the signature is still required.
C8_RequiredIsDeclaredMinusCaller ==
    /\ \A i \in DOMAIN global_registry : global_registry[i].v \in DictKeys(tool_schema)
    /\ \A id \in DictKeys(tool_schema) :
          LET fn == Fn(id)
              declared == SelectSeq(fn.params, LAMBDA p : p \notin {"agent", "Agent", "AGENT"})
              parameters == SchemaOf(id).parameters
          IN /\ parameters.required = declared
             /\ DictKeys(parameters.properties) = Range(declared)
             /\ Len(parameters.properties) = Len(declared)
             /\ \A d \in DictKeys(fn.defaults) \ {"agent"} : d \in Range(parameters.required)

\* a decorated function whose signature gives a default to a required parameter
C8_Witness ==
    /\ "greet" \in DictKeys(global_registry)
    /\ DictGet(global_registry, "greet") = "greet_default"
    /\ "greet_default" \in DictKeys(tool_schema)
    /\ "times" \in DictKeys(Fn("greet_default").defaults)
    /\ SchemaOf("greet_default").parameters.required = <<"name", "times">>

\* the "type" an exported or compiled schema gives parameter p
PropertyType(schema, p) == DictGet(DictGet(schema.parameters.properties, p).items, "type")

SelectedNames ==
    IF exported.args = <<>> \/ exported.args[1] = PyNone
    THEN DictKeys(tools)
    ELSE {exported.args[1].items[i].s[1] : i \in DOMAIN exported.args[1].items}

\* C10: schema export with a subset of names returns the schemas of exactly
\* the registered tools named in the subset, in registration order, a name
\* that is not registered being omitted without any error; with no subset it
\* returns one schema for every registered tool, in registration order.
C10_SubsetExport ==
    exported.called =>
        /\ exported.raised = "none"
        /\ [i \in DOMAIN exported.schemas |-> exported.schemas[i].function.name]
              = SelectSeq(DictKeySeq(tools), LAMBDA name : name \in SelectedNames)

-----------------------------------------------------------------------------
(* Properties of registration: validation, targets and observers *)

\* the parameters the documentation of fn has a description line for
DescribedParams(fn) ==
    {ln.toks[1] : ln \in {l \in Range(fn.doc) : l.ind > 0 /\ Len(l.toks) >= 3 /\ l.toks[2] = ":"}}

\* fn has no documentation, or its documentation leaves a declared parameter out
LacksDescription(fn) == fn.doc = <<>> \/ Range(fn.params) \ DescribedParams(fn) # {}

\* C11: decorating a function whose documentation lacks the description of a
\* declared parameter, or that has no documentation, raises
\* DocstringParsingError, and that step attaches no schema, changes neither the
\* default registry nor a ToolManager and notifies no observer.
C11_FailedRegistrationChangesNothing ==
    [][ \A fn \in DecoratorInputs, target \in Targets :
           (LacksDescription(fn) /\ n_ops' = n_ops + 1 /\ Decorate(fn, target)) =>
               /\ decorated'.raised = "DocstringParsingError"
               /\ UNCHANGED <<tool_schema, global_registry, tools, other_tools, notified>>
      ]_vars

\* a decoration into the default registry failed with an observer installed:
\* the function has no schema, the registry no entry, the observer no call
C11_Witness ==
    /\ decorated = [fn |-> "speak_to", target |-> "registry",
                    raised |-> "DocstringParsingError"]
    /\ LacksDescription(speak_to)
    /\ tool_callbacks # <<>>
    /\ notified = <<>>
    /\ "speak_to" \notin DictKeys(tool_schema)
    /\ global_registry = <<>>

\* the declared parameters of fn other than the caller context that its
\* documentation leaves out, in signature order
UndocumentedNonCaller(fn) ==
    SelectSeq(fn.params, LAMBDA p : Lower(p) # "agent" /\ p \notin DescribedParams(fn))

\* C12: the validation asks for a description of the parameters other than
\* the caller context only: a documented function that describes all of them
\* is decorated without error even if `agent` has no entry, and the error for
\* a missing description names exactly the undocumented non-caller parameters.
C12_CallerContextNeedsNoDescription ==
    decorated.fn # "" =>
        LET fn == Fn(decorated.fn)
            undocumented == UndocumentedNonCaller(fn)
        IN /\ (fn.doc # <<>> /\ undocumented = <<>>) => decorated.raised = "none"
           /\ (fn.doc # <<>> /\ undocumented # <<>>) =>
                 /\ decorated.raised = "DocstringParsingError"
                 /\ ParseDocstring(fn).exc.msg =
                       <<"Docstring for ", fn.name, " is missing descriptions for: ">>
                       \o Repr(PyList([k \in DOMAIN undocumented |->
                                          PyStr(<<undocumented[k]>>)]))

\* a Tool Group holds at most one entry per name
UniqueNames(ts) == \A i, j \in DOMAIN ts : ts[i].k = ts[j].k => i = j

\* new is old with fn registered: its name maps to fn, once, and every other
\* name maps to what it mapped to
RegisteredIn(old, new, fn) ==
    /\ UniqueNames(new)
    /\ {new[i].k : i \in DOMAIN new} = {old[i].k : i \in DOMAIN old} \cup {fn.name}
    /\ \A i \in DOMAIN new : new[i].k = fn.name => new[i].v = fn.id
    /\ \A i \in DOMAIN old : old[i].k # fn.name => \E j \in DOMAIN new : new[j] = old[i]

\* a step that registers fn with manager m, by register or by the decorator
RegistersWith(fn, m) ==
    /\ n_ops' = n_ops + 1
    /\ RegisterCall(fn, m) \/ (decorated'.raised = "none" /\ Decorate(fn, m))

\* C13: every registration into a Tool Group leaves it with exactly one tool
\* per name, the registered name mapping to the function just registered (a
\* function registered earlier under that name is replaced) and every other
\* name mapping to the function it mapped to before.
C13_RegisterOverwritesByName ==
    [][ \A fn \in RegisterInputs \cup DecoratorInputs :
           /\ RegistersWith(fn, "tools") => RegisteredIn(tools, tools', fn)
           /\ RegistersWith(fn, "other_tools") => RegisteredIn(other_tools, other_tools', fn)
      ]_vars

\* after two operations, greet and then greet_default (same name, another
\* function) have been registered with the first manager: one entry is left
C13_Witness ==
    /\ n_ops = 2
    /\ decorated = [fn |-> "greet_default", target |-> "tools", raised |-> "none"]
    /\ "greet" \in DictKeys(tool_schema)
    /\ global_registry = <<>>
    /\ other_tools = ToolManagerInit
    /\ tools = Append(ToolManagerInit, [k |-> "greet", v |-> "greet_default"])

\* C14: every successful registration through the tool decorator, into the
\* default registry or into a ToolManager given as tool_manager=, calls each
\* observer added with add_tool_callback exactly once with the new tool, in
\* the step that stores the tool.
C14_DecoratorNotifiesObservers ==
    [][ \A fn \in DecoratorInputs, target \in Targets :
           (n_ops' = n_ops + 1 /\ decorated'.raised = "none" /\ Decorate(fn, target)) =>
               notified' = notified \o [i \in DOMAIN tool_callbacks |->
                                           [callback |-> tool_callbacks[i], fn |-> fn.id]]
      ]_vars

\* C15: a registration changes its target only: with a ToolManager it stores
\* the tool there and leaves the default registry and the other ToolManager as
\* they were; without one it stores the tool in the default registry and
\* leaves both ToolManagers as they were.
C15_RegistrationChangesItsTargetOnly ==
    [][ \A fn \in RegisterInputs \cup DecoratorInputs :
           /\ RegistersWith(fn, "tools") =>
                 /\ DictGet(tools', fn.name) = fn.id
                 /\ UNCHANGED <<other_tools, global_registry>>
           /\ RegistersWith(fn, "other_tools") =>
                 /\ DictGet(other_tools', fn.name) = fn.id
                 /\ UNCHANGED <<tools, global_registry>>
           /\ (n_ops' = n_ops + 1 /\ decorated'.raised = "none" /\ Decorate(fn, "registry")) =>
                 /\ DictGet(global_registry', fn.name) = fn.id
                 /\ UNCHANGED <<tools, other_tools>>
      ]_vars

\* two registrations, one with the first manager and one without a manager:
\* each is in its target, and the second manager is as constructed
C15_Witness ==
    /\ n_ops = 2
    /\ decorated.raised = "none"
    /\ tools = Append(ToolManagerInit, [k |-> "greet", v |-> "greet"])
    /\ global_registry = <<[k |-> "greet", v |-> "greet_default"]>>
    /\ other_tools = ToolManagerInit

\* C16: a newly constructed ToolManager holds exactly the tools of the global
\* tool registry at construction time: none when the registry is empty, and
\* otherwise each registered name with the function the registry gives it.
C16_NewManagerHoldsGlobalRegistry ==
    [][ (n_ops' = n_ops + 1 /\ NewToolManagerStep) =>
            /\ global_registry = <<>> => other_tools' = <<>>
            /\ Len(other_tools') = Len(global_registry)
            /\ Range(other_tools') = Range(global_registry)
      ]_vars

\* every parameter of the schema has a description that is not empty
AllParametersDescribed(schema) ==
    \A j \in DOMAIN schema.function.parameters.properties :
        DictGet(schema.function.parameters.properties[j].v.items, "description").s # <<>>

\* C17: in every reachable state the schema of every registered tool gives
\* each of its parameters a non-empty description: the schema the decorator
\* attached, and the schemas a ToolManager exports, whatever registrations
\* (tool decorator or ToolManager.register) came before.
C17_NoEmptyParameterDescription ==
    /\ \A i \in DOMAIN tool_schema : AllParametersDescribed(tool_schema[i].v)
    /\ (exported.called /\ exported.raised = "none") =>
          \A i \in DOMAIN exported.schemas : AllParametersDescribed(exported.schemas[i])

-----------------------------------------------------------------------------
(* Properties of the type schema compiler *)

\* C18: _python_to_json_type is total: it returns a schema, without raising,
\* for every type built from primitives, None, unions, list, tuple, set and
\* dict at any nesting, and {"type": "object"} for a class it has no entry for.
C18_CompilerIsTotal ==
    json_type # NotCompiled =>
        /\ json_type.ok
        /\ py_type = Ty("LLMAgent", <<>>) => json_type.val = JType("object")

\* the members of a union other than type(None)
NonNoneMembers(t) == SelectSeq(t.args, LAMBDA a : a.k # "NoneType")

\* the T of a union that is Optional[T]: its member other than None, or the
\* union of those members
OptionalArgument(t) ==
    IF Len(NonNoneMembers(t)) = 1 THEN NonNoneMembers(t)[1]
    ELSE Ty("Union", NonNoneMembers(t))

\* C19: the schema compiled for Optional[T] (a union that includes None)
\* admits null: when the schema of T names a single type, it is that schema
\* with "type" turned into [that type, "null"]; otherwise it is an anyOf of the
\* schema of T and {"type": "null"}.
C19_OptionalAdmitsNull ==
    (/\ json_type # NotCompiled
     /\ py_type.k = "Union"
     /\ Len(NonNoneMembers(py_type)) < Len(py_type.args)
     /\ PythonToJsonType(OptionalArgument(py_type)).ok) =>
        LET base == PythonToJsonType(OptionalArgument(py_type)).val IN
        /\ json_type.ok
        /\ IF "type" \in DictKeys(base.items) /\ DictGet(base.items, "type").ty = "str"
           THEN json_type.val =
                   PyDict(DictSet(base.items, "type",
                                  PyList(<<DictGet(base.items, "type"), PyStr(<<"null">>)>>)))
           ELSE /\ DictKeys(json_type.val.items) = {"anyOf"}
                /\ JType("null") \in Range(DictGet(json_type.val.items, "anyOf").items)

\* C20: a tuple type whose positions do not all have the same type compiles
\* to {"type": "array", "items": {"anyOf": [...]}} whose anyOf list holds the
\* schema of each distinct member type exactly once.
C20_MixedTupleListsEachMemberOnce ==
    (/\ json_type # NotCompiled
     /\ py_type.k = "tuple[]"
     /\ py_type # VariableLengthTuple(py_type.args[1])
     /\ Cardinality(Range(py_type.args)) > 1
     /\ \A i \in DOMAIN py_type.args : PythonToJsonType(py_type.args[i]).ok) =>
        /\ json_type.ok
        /\ DictKeys(json_type.val.items) = {"type", "items"}
        /\ DictGet(json_type.val.items, "type") = PyStr(<<"array">>)
        /\ LET items == DictGet(json_type.val.items, "items") IN
           /\ items.ty = "dict"
           /\ DictKeys(items.items) = {"anyOf"}
           /\ LET any_of == DictGet(items.items, "anyOf").items IN
              /\ Len(any_of) = Cardinality(Range(py_type.args))
              /\ Range(any_of) = {PythonToJsonType(a).val : a \in Range(py_type.args)}

\* list[T], set[T], tuple[T] and tuple[T, ...]: the collections of one element type
IsHomogeneousCollection(t) ==
    \/ t.k \in {"list[]", "set[]"} /\ Len(t.args) = 1
    \/ t.k = "tuple[]" /\ (Len(t.args) = 1 \/ t = VariableLengthTuple(t.args[1]))

\* C21: list[T], set[T], tuple[T] and tuple[T, ...] compile to
\* {"type": "array", "items": compile(T)} for every element type T that
\* compiles, nested ones included.
C21_CollectionOfOneTypeIsArrayOfIt ==
    (/\ json_type # NotCompiled
     /\ IsHomogeneousCollection(py_type)
     /\ PythonToJsonType(py_type.args[1]).ok) =>
        json_type = TypeOk(JArray(PythonToJsonType(py_type.args[1]).val))

-----------------------------------------------------------------------------
(* Properties of the agent's memory *)

\* a post-step is being made
IsPostStep == memory_pc = "post" /\ memory_pc' = "idle"

\* C22: when every process_step(pre_step=True) is followed by a
\* process_step(pre_step=False), short_term_memory holds at most
\* capacity + consolidation_capacity entries after every post-step, and a
\* post-step that would exceed the bound removes the oldest entry and no other.
C22_ShortTermMemoryIsBounded ==
    [][IsPostStep =>
        /\ Len(memory'.short_term_memory) <= memory.capacity + memory.consolidation_capacity
        /\ IF Len(memory.short_term_memory) > memory.capacity + memory.consolidation_capacity
           THEN /\ Len(memory'.short_term_memory) = Len(memory.short_term_memory) - 1
                /\ \A i \in 1..(Len(memory'.short_term_memory) - 1) :
                       memory'.short_term_memory[i] = memory.short_term_memory[i + 1]
                /\ evicted' # <<>>
           ELSE /\ Len(memory'.short_term_memory) = Len(memory.short_term_memory)
                /\ \A i \in 1..(Len(memory.short_term_memory) - 1) :
                       memory'.short_term_memory[i] = memory.short_term_memory[i]
                /\ evicted' = <<>>]_vars

\* a post-step has just removed the oldest of several entries and left the
\* memory at its bound
C22_Witness ==
    /\ memory_pc = "idle"
    /\ evicted # <<>>
    /\ Len(memory.short_term_memory) = memory.capacity + memory.consolidation_capacity
    /\ Len(memory.short_term_memory) >= 2
    /\ evicted[1].step # memory.short_term_memory[1].step

\* C23: whenever process_step evicts the oldest short-term entry, the
\* evicted entry is part of the prompt of the long-term summary update made
\* for that eviction.
C23_EvictedEntryIsSummarized ==
    [][(IsPostStep /\ evicted' # <<>>) =>
        /\ llm_calls' = llm_calls + 1
        /\ evicted'[1] \in Range(llm_prompt'.short_term)]_vars

-----------------------------------------------------------------------------
(* Properties of ReWOO plan continuation *)

\* a plan() call is being made that finds tool calls remaining
IsContinuation ==
    /\ plan_calls' = plan_calls + 1
    /\ rewoo.remaining_tool_calls > 0
    /\ plan_returned'.raised # "ValueError"

\* C29: starting from a stored plan of N tool calls with
\* remaining_tool_calls = N, each of the next N plan() calls returns a plan
\* holding exactly one tool call, the k-th call the k-th tool call of the
\* stored plan, and decrements remaining_tool_calls by 1, down to 0.
C29_ContinuationWalksThePlanInOrder ==
    [][IsContinuation =>
        /\ plan_returned'.raised = "none"
        /\ plan_returned'.tool_calls
              = <<stored_plan[Len(stored_plan) - rewoo.remaining_tool_calls + 1]>>
        /\ rewoo'.remaining_tool_calls = rewoo.remaining_tool_calls - 1
        /\ rewoo'.current_obs = rewoo.current_obs]_vars

-----------------------------------------------------------------------------
(* Properties of the simulation recorder *)

\* a record_event call is being made on a recorder that auto-saves
IsRecordEvent ==
    /\ recorder_calls' = recorder_calls + 1
    /\ recorder_returned'.method = "record_event"
    /\ recorder.auto_save_interval >= 1

\* C30: with auto_save_interval = N >= 1, every call to record_event
\* terminates (it returns, raising nothing), the auto-save it makes performs
\* exactly one save, and events_since_save is below N when it returns.
C30_RecordEventTerminatesAfterOneSave ==
    [][IsRecordEvent =>
        /\ recorder_returned'.raised = "none"
        /\ recorder_returned'.saves <= 1
        /\ recorder'.events_since_save < recorder.auto_save_interval]_vars

====
